---- MODULE Spec2Model ----
(***************************************************************************)
(* A model of codemap's graph store (src/db), its index pass (src/lib.rs)  *)
(* and its graph queries (src/graph).                                      *)
(*                                                                         *)
(* The store is one SQLite connection with foreign keys enforced.  A row   *)
(* is a record, a table a set of rows keyed by its primary key, and        *)
(* Option<T> is a sequence of length 0 (None) or 1 (Some).                 *)
(***************************************************************************)
EXTENDS Integers, Sequences, FiniteSets, TLC

\* ------------------------------------------------------------------ bounds
\* Operations called on the handle: direct calls of the store's API and
\* index passes (index_codebase calls).
MaxOps == 2

\* ------------------------------------------------------------- input sets
Paths == {"a.rs", "b.rs"}
Names == {"f", "g"}
EdgeKinds == {"calls", "contains"}
\* A call site: <<line, column>>.
Sites == {<<1, 9>>, <<2, 4>>}
\* Which row an unordered "LIMIT 1" lookup returns first.
Picks == {"lo", "hi"}

None == <<>>
Some(x) == <<x>>

\* -------------------------------------------------------- the source tree
\* File contents, named by what they declare:
\*   c_f : fn f() { g(); h(); }      c_g : fn g() {}
Contents == {"c_f", "c_g"}
FileStates == Contents \cup {"absent", "unreadable"}

\* hex(SHA-256(content)): distinct contents have distinct digests.
content_hash_of(c) ==
    CASE c = "c_f" -> "h_f"
      [] c = "c_g"  -> "h_g"
\* A digest of no content of the tree: a stale or foreign hash.
Hashes == {content_hash_of(c) : c \in Contents} \cup {"h_old"}

\* ------------------------------------------------------------- the store
Languages ==
    {"Rust", "TypeScript", "JavaScript", "Tsx", "Jsx", "Python", "Go", "Java", "C",
     "Cpp", "CSharp", "Php", "Ruby", "Swift", "Kotlin", "Unknown"}

from_extension(ext) ==
    CASE ext = "rs" -> "Rust"
      [] ext = "ts" -> "TypeScript"
      [] ext = "tsx" -> "Tsx"
      [] ext \in {"js", "mjs", "cjs"} -> "JavaScript"
      [] ext = "jsx" -> "Jsx"
      [] ext \in {"py", "pyi"} -> "Python"
      [] ext = "go" -> "Go"
      [] ext = "java" -> "Java"
      [] ext \in {"c", "h"} -> "C"
      [] ext \in {"cpp", "cc", "cxx", "hpp", "hxx"} -> "Cpp"
      [] ext = "cs" -> "CSharp"
      [] ext = "php" -> "Php"
      [] ext = "rb" -> "Ruby"
      [] ext = "swift" -> "Swift"
      [] ext \in {"kt", "kts"} -> "Kotlin"
      [] OTHER -> "Unknown"

Language_as_str(language) ==
    CASE language = "Rust" -> "rust"
      [] language = "TypeScript" -> "typescript"
      [] language = "JavaScript" -> "javascript"
      [] language = "Tsx" -> "tsx"
      [] language = "Jsx" -> "jsx"
      [] language = "Python" -> "python"
      [] language = "Go" -> "go"
      [] language = "Java" -> "java"
      [] language = "C" -> "c"
      [] language = "Cpp" -> "cpp"
      [] language = "CSharp" -> "csharp"
      [] language = "Php" -> "php"
      [] language = "Ruby" -> "ruby"
      [] language = "Swift" -> "swift"
      [] language = "Kotlin" -> "kotlin"
      [] language = "Unknown" -> "unknown"

\* ---- the kinds of a node and of an edge, and the visibility of a symbol
NodeKinds ==
    {"File", "Module", "Class", "Struct", "Interface", "Trait", "Protocol", "Function",
    "Method", "Property", "Field", "Variable", "Constant", "Enum", "EnumMember",
    "TypeAlias", "Namespace", "Parameter", "Import", "Export", "Route", "Component"}

NodeKind_as_str(kind) ==
    CASE kind = "File" -> "file"
      [] kind = "Module" -> "module"
      [] kind = "Class" -> "class"
      [] kind = "Struct" -> "struct"
      [] kind = "Interface" -> "interface"
      [] kind = "Trait" -> "trait"
      [] kind = "Protocol" -> "protocol"
      [] kind = "Function" -> "function"
      [] kind = "Method" -> "method"
      [] kind = "Property" -> "property"
      [] kind = "Field" -> "field"
      [] kind = "Variable" -> "variable"
      [] kind = "Constant" -> "constant"
      [] kind = "Enum" -> "enum"
      [] kind = "EnumMember" -> "enum_member"
      [] kind = "TypeAlias" -> "type_alias"
      [] kind = "Namespace" -> "namespace"
      [] kind = "Parameter" -> "parameter"
      [] kind = "Import" -> "import"
      [] kind = "Export" -> "export"
      [] kind = "Route" -> "route"
      [] kind = "Component" -> "component"

NodeKind_from_str(s) ==
    CASE s = "file" -> Some("File")
      [] s = "module" -> Some("Module")
      [] s = "class" -> Some("Class")
      [] s = "struct" -> Some("Struct")
      [] s = "interface" -> Some("Interface")
      [] s = "trait" -> Some("Trait")
      [] s = "protocol" -> Some("Protocol")
      [] s = "function" -> Some("Function")
      [] s = "method" -> Some("Method")
      [] s = "property" -> Some("Property")
      [] s = "field" -> Some("Field")
      [] s = "variable" -> Some("Variable")
      [] s = "constant" -> Some("Constant")
      [] s = "enum" -> Some("Enum")
      [] s = "enum_member" -> Some("EnumMember")
      [] s = "type_alias" -> Some("TypeAlias")
      [] s = "namespace" -> Some("Namespace")
      [] s = "parameter" -> Some("Parameter")
      [] s = "import" -> Some("Import")
      [] s = "export" -> Some("Export")
      [] s = "route" -> Some("Route")
      [] s = "component" -> Some("Component")
      [] OTHER -> None

EdgeKindValues ==
    {"Contains", "Calls", "Imports", "Exports", "Extends", "Implements", "References", "TypeOf", "Returns",
    "Instantiates", "Overrides", "Decorates"}

EdgeKind_as_str(kind) ==
    CASE kind = "Contains" -> "contains"
      [] kind = "Calls" -> "calls"
      [] kind = "Imports" -> "imports"
      [] kind = "Exports" -> "exports"
      [] kind = "Extends" -> "extends"
      [] kind = "Implements" -> "implements"
      [] kind = "References" -> "references"
      [] kind = "TypeOf" -> "type_of"
      [] kind = "Returns" -> "returns"
      [] kind = "Instantiates" -> "instantiates"
      [] kind = "Overrides" -> "overrides"
      [] kind = "Decorates" -> "decorates"

EdgeKind_from_str(s) ==
    CASE s = "contains" -> Some("Contains")
      [] s = "calls" -> Some("Calls")
      [] s = "imports" -> Some("Imports")
      [] s = "exports" -> Some("Exports")
      [] s = "extends" -> Some("Extends")
      [] s = "implements" -> Some("Implements")
      [] s = "references" -> Some("References")
      [] s = "type_of" -> Some("TypeOf")
      [] s = "returns" -> Some("Returns")
      [] s = "instantiates" -> Some("Instantiates")
      [] s = "overrides" -> Some("Overrides")
      [] s = "decorates" -> Some("Decorates")
      [] OTHER -> None

Visibilities ==
    {"Public", "Private", "Protected", "Internal", "Unknown"}

Visibility_as_str(visibility) ==
    CASE visibility = "Public" -> "public"
      [] visibility = "Private" -> "private"
      [] visibility = "Protected" -> "protected"
      [] visibility = "Internal" -> "internal"
      [] visibility = "Unknown" -> "unknown"

Visibility_from_str(s) ==
    CASE s \in {"public", "pub"} -> "Public"
      [] s \in {"private", "priv"} -> "Private"
      [] s = "protected" -> "Protected"
      [] s = "internal" -> "Internal"
      [] OTHER -> "Unknown"


\* Language::parse, the decoder row_to_node and get_stats call: the inverse of
\* as_str, any other string giving Unknown.
Language_parse(s) ==
    CASE s = "rust" -> "Rust"
      [] s = "typescript" -> "TypeScript"
      [] s = "javascript" -> "JavaScript"
      [] s = "tsx" -> "Tsx"
      [] s = "jsx" -> "Jsx"
      [] s = "python" -> "Python"
      [] s = "go" -> "Go"
      [] s = "java" -> "Java"
      [] s = "c" -> "C"
      [] s = "cpp" -> "Cpp"
      [] s = "csharp" -> "CSharp"
      [] s = "php" -> "Php"
      [] s = "ruby" -> "Ruby"
      [] s = "swift" -> "Swift"
      [] s = "kotlin" -> "Kotlin"
      [] OTHER -> "Unknown"

\* The width of size (u64) and of an INTEGER column (i64), scaled down.
SizeBits == 3
\* size as i64, and the column as u64.
as_i64(u) == IF u >= 2 ^ (SizeBits - 1) THEN u - 2 ^ SizeBits ELSE u
as_u64(i) == (i + 2 ^ SizeBits) % (2 ^ SizeBits)

FullFileRecord(path, hash, language, size, modified_at, n) ==
    [path |-> path, content_hash |-> hash, language |-> language, size |-> size,
     modified_at |-> modified_at, indexed_at |-> modified_at, node_count |-> n]
\* path.extension()
extension(path) == IF path = "c.cs" THEN "cs" ELSE "rs"
\* The record of a source file, sizes and times 0.
FileRecord(path, hash, n) ==
    FullFileRecord(path, hash, from_extension(extension(path)), 0, 0, n)
FullNode(id, kind, name, path, visibility, language) ==
    [id |-> id, kind |-> kind, name |-> name, file_path |-> path,
     visibility |-> visibility, language |-> language]
\* A public symbol of a source file, in the language of the file.
Node(id, kind, name, path) ==
    FullNode(id, kind, name, path, "Public", from_extension(extension(path)))
Edge(id, src, tgt, kind, path, line, column) ==
    [id |-> id, source_id |-> src, target_id |-> tgt, kind |-> kind,
     file_path |-> path, line |-> line, column |-> column]
UnresolvedReference(id, src, name, kind, path, line, column) ==
    [id |-> id, source_node_id |-> src, reference_name |-> name, kind |-> kind,
     file_path |-> path, line |-> line, column |-> column]

\* The schema: four empty tables and the AUTOINCREMENT counters.
SCHEMA ==
    [files |-> {}, nodes |-> {}, edges |-> {}, unresolved_refs |-> {},
     seq |-> [nodes |-> 0, edges |-> 0, unresolved_refs |-> 0]]

\* Result<T>: Ok(ret) with the store after the call, or Err with the store as
\* the failed statement left it (the statement itself is undone).
Ok(d, ret) == [ok |-> TRUE, db |-> d, ret |-> ret]
Err(d) == [ok |-> FALSE, db |-> d, ret |-> 0]

NodeIds(d) == {n.id : n \in d.nodes}
NodesOfFile(d, path) == {n.id : n \in {m \in d.nodes : m.file_path = path}}

\* Rows of a table in rowid order.
RECURSIVE ById(_)
ById(rows) ==
    IF rows = {} THEN <<>>
    ELSE LET r == CHOOSE x \in rows : \A y \in rows : x.id <= y.id
         IN <<r>> \o ById(rows \ {r})

Take(s, n) == IF Len(s) <= n THEN s ELSE SubSeq(s, 1, n)

\* ---- files
\* The row of a record: the language as its string, the size as i64.
file_row(file) ==
    [file EXCEPT !.language = Language_as_str(file.language), !.size = as_i64(file.size)]

insert_or_update_file(d, file) ==
    Ok([d EXCEPT !.files = {r \in @ : r.path # file.path} \cup {file_row(file)}], 0)

\* The record of a row as get_file reads it.
row_to_file(row) ==
    [row EXCEPT !.language = from_extension(row.language), !.size = as_u64(row.size)]

get_file(d, path) ==
    IF \E r \in d.files : r.path = path
    THEN Some(row_to_file(CHOOSE r \in d.files : r.path = path))
    ELSE None

\* needs_reindex with the comparison turned around.
needs_reindex_when_equal(d, path, content_hash) ==
    LET file == get_file(d, path)
    IN IF file # None THEN file[1].content_hash = content_hash ELSE TRUE

\* A change gate that lets every file through.
needs_reindex_always(d, path, content_hash) == TRUE

needs_reindex(d, path, content_hash) ==
    LET file == get_file(d, path)
    IN IF file # None THEN file[1].content_hash # content_hash ELSE TRUE

\* delete_file without its last statement: the file record stays.
delete_file_order_without_files == <<"edges_out", "edges_in", "nodes", "unresolved_refs">>

\* The order in which delete_file removes a file's rows.
delete_file_order == <<"edges_out", "edges_in", "nodes", "unresolved_refs", "files">>

\* One DELETE statement of delete_file; a foreign-key violation fails it.
delete_stmt(d, what, path) ==
    LET ids == NodesOfFile(d, path)
    IN CASE what = "edges_out" ->
              Ok([d EXCEPT !.edges = {e \in @ : e.source_id \notin ids}], 0)
         [] what = "edges_in" ->
              Ok([d EXCEPT !.edges = {e \in @ : e.target_id \notin ids}], 0)
         [] what = "nodes" ->
              IF \/ \E e \in d.edges : e.source_id \in ids \/ e.target_id \in ids
                 \/ \E u \in d.unresolved_refs : u.source_node_id \in ids
              THEN Err(d)
              ELSE Ok([d EXCEPT !.nodes = {n \in @ : n.file_path # path}], 0)
         [] what = "unresolved_refs" ->
              Ok([d EXCEPT !.unresolved_refs = {u \in @ : u.file_path # path}], 0)
         [] what = "files" ->
              IF \E n \in d.nodes : n.file_path = path
              THEN Err(d)
              ELSE Ok([d EXCEPT !.files = {r \in @ : r.path # path}], 0)

RECURSIVE delete_steps(_, _, _)
delete_steps(d, order, path) ==
    IF order = <<>> THEN Ok(d, 0)
    ELSE LET r == delete_stmt(d, Head(order), path)
         IN IF r.ok THEN delete_steps(r.db, Tail(order), path) ELSE r

delete_file(d, path) == delete_steps(d, delete_file_order, path)

\* ---- nodes
\* The columns insert_node binds: kind, visibility and language as strings.
node_row(node) ==
    [node EXCEPT !.kind = NodeKind_as_str(node.kind),
                 !.visibility = Visibility_as_str(node.visibility),
                 !.language = Language_as_str(node.language)]

\* What row_to_node makes of a column, for each string insert_node writes to
\* it (no other statement writes these columns); computed once.
kind_column ==
    [s \in {NodeKind_as_str(kind) : kind \in NodeKinds} |->
        LET kind == NodeKind_from_str(s) IN IF kind = None THEN "Function" ELSE kind[1]]
visibility_column ==
    [s \in {Visibility_as_str(v) : v \in Visibilities} |-> Visibility_from_str(s)]
language_column == [s \in {Language_as_str(l) : l \in Languages} |-> Language_parse(s)]
\* The language column decoded as get_file decodes it.
language_column_from_extension ==
    [s \in {Language_as_str(l) : l \in Languages} |-> from_extension(s)]

\* row_to_node decoding the language column as get_file does.
row_to_node_language_from_extension(row) ==
    [row EXCEPT !.kind = kind_column[row.kind],
                !.visibility = visibility_column[row.visibility],
                !.language = language_column_from_extension[row.language]]

row_to_node(row) ==
    [row EXCEPT !.kind = kind_column[row.kind],
                !.visibility = visibility_column[row.visibility],
                !.language = language_column[row.language]]

insert_node(d, node) ==
    IF \E r \in d.files : r.path = node.file_path
    THEN LET id == d.seq.nodes + 1
         IN Ok([d EXCEPT !.nodes = @ \cup {[node_row(node) EXCEPT !.id = id]},
                         !.seq.nodes = id], id)
    ELSE Err(d)

get_node(d, id) ==
    IF \E n \in d.nodes : n.id = id
    THEN Some(row_to_node(CHOOSE n \in d.nodes : n.id = id))
    ELSE None

\* "WHERE name = ?1 LIMIT 1": some node of that name; which one is not fixed.
find_node_by_name(d, name, pick) ==
    LET hits == {n \in d.nodes : n.name = name}
    IN IF hits = {} THEN None
       ELSE IF pick = "lo"
            THEN Some(row_to_node(CHOOSE n \in hits : \A m \in hits : n.id <= m.id))
            ELSE Some(row_to_node(CHOOSE n \in hits : \A m \in hits : n.id >= m.id))

\* ---- edges
\* insert_edge on a connection that does not enforce foreign keys.
insert_edge_unchecked(d, edge) ==
    LET id == d.seq.edges + 1
    IN Ok([d EXCEPT !.edges = @ \cup {[edge EXCEPT !.id = id]}, !.seq.edges = id], id)

insert_edge(d, edge) ==
    IF edge.source_id \in NodeIds(d) /\ edge.target_id \in NodeIds(d)
    THEN LET id == d.seq.edges + 1
         IN Ok([d EXCEPT !.edges = @ \cup {[edge EXCEPT !.id = id]},
                         !.seq.edges = id], id)
    ELSE Err(d)

\* One row per joined edge, in edge order, cut at the limit.
RECURSIVE JoinNodes(_, _, _)
JoinNodes(d, es, end) ==
    IF es = <<>> THEN <<>>
    ELSE LET n == get_node(d, IF end = "source" THEN Head(es).source_id
                                              ELSE Head(es).target_id)
         IN n \o JoinNodes(d, Tail(es), end)

\* get_callers without the filter on the edge kind.
get_callers_of_any_kind(d, node_id, limit) ==
    Take(JoinNodes(d, ById({e \in d.edges : e.target_id = node_id}), "source"), limit)

get_callers(d, node_id, limit) ==
    Take(JoinNodes(d, ById({e \in d.edges :
                              e.target_id = node_id /\ e.kind = "calls"}),
                   "source"), limit)

get_callees(d, node_id, limit) ==
    Take(JoinNodes(d, ById({e \in d.edges :
                              e.source_id = node_id /\ e.kind = "calls"}),
                   "target"), limit)

get_outgoing_edges(d, node_id) == ById({e \in d.edges : e.source_id = node_id})
get_incoming_edges(d, node_id) == ById({e \in d.edges : e.target_id = node_id})

\* ---- unresolved references
insert_unresolved_ref(d, uref) ==
    IF uref.source_node_id \in NodeIds(d)
    THEN LET id == d.seq.unresolved_refs + 1
         IN Ok([d EXCEPT !.unresolved_refs = @ \cup {[uref EXCEPT !.id = id]},
                         !.seq.unresolved_refs = id], id)
    ELSE Err(d)

get_unresolved_refs(d) == ById(d.unresolved_refs)

\* resolved_edge without the reference site.
resolved_edge_without_site(uref, target) ==
    Edge(0, uref.source_node_id, target.id, uref.kind, None, None, None)

\* The edge resolve_references builds for a reference and its target.
resolved_edge(uref, target) ==
    Edge(0, uref.source_node_id, target.id, uref.kind,
         Some(uref.file_path), Some(uref.line), Some(uref.column))

RECURSIVE resolve_loop(_, _, _, _)
resolve_loop(d, refs, pick, resolved) ==
    IF refs = <<>> THEN Ok(d, resolved)
    ELSE LET target == find_node_by_name(d, Head(refs).reference_name, pick)
         IN IF target = None
            THEN resolve_loop(d, Tail(refs), pick, resolved)
            ELSE LET r == insert_edge(d, resolved_edge(Head(refs), target[1]))
                 IN IF r.ok
                    THEN resolve_loop(r.db, Tail(refs), pick, resolved + 1)
                    ELSE r

\* Clearing only the references that found a node.
clear_resolved_refs_only(d) ==
    [d EXCEPT !.unresolved_refs =
        {u \in @ : \A n \in d.nodes : n.name # u.reference_name}]

\* Clearing nothing.
clear_no_refs(d) == d

\* "DELETE FROM unresolved_refs" after the loop.
clear_unresolved_refs(d) == [d EXCEPT !.unresolved_refs = {}]

resolve_references(d, pick) ==
    LET r == resolve_loop(d, get_unresolved_refs(d), pick, 0)
    IN IF r.ok THEN Ok(clear_unresolved_refs(r.db), r.ret) ELSE r

\* ---- statistics
get_stats(d) ==
    [total_files |-> Cardinality(d.files),
     total_nodes |-> Cardinality(d.nodes),
     total_edges |-> Cardinality(d.edges)]

\* The project before its first pass: a.rs calls into b.rs.
Project == [p \in Paths |-> IF p = "a.rs" THEN "c_f" ELSE "c_g"]

\* ------------------------------------------------------------ extraction
ExtractionResult(nodes, edges, urefs, errors) ==
    [nodes |-> nodes, edges |-> edges, unresolved_refs |-> urefs, errors |-> errors]

\* languages::get_language: whether there is a grammar for the language.
get_language(language) ==
    language \in {"Rust", "TypeScript", "Tsx", "JavaScript", "Jsx", "Python", "Go",
                  "Java", "C", "Cpp"}

\* The extractor on the contents of the tree: the file node first (local id 1),
\* then the one function, its contains edge and its call sites.  Ids are local.
\* A file of a language without a grammar gives one error and nothing else.
extract_file(path, content) ==
    LET file_node == Node(1, "File", path, path)
        fn(name) == Node(2, "Function", name, path)
        contains == Edge(0, 1, 2, "contains", Some(path), Some(1), Some(0))
        call(name, column) ==
            UnresolvedReference(0, 2, name, "calls", path, 1, column)
        language == from_extension(extension(path))
    IN CASE language = "Unknown" \/ ~get_language(language) ->
              ExtractionResult(<<>>, <<>>, <<>>, 1)
         [] content = "c_f" ->
              ExtractionResult(<<file_node, fn("f")>>, <<contains>>,
                               <<call("g", 9), call("h", 14)>>, 0)
         [] content = "c_g" ->
              ExtractionResult(<<file_node, fn("g")>>, <<contains>>, <<>>, 0)

\* ------------------------------------------------------------------ state
VARIABLES
    db,      \* the store as the handle sees it
    saved,   \* the store as of BEGIN, while a transaction is open
    inTxn,   \* whether the handle has a transaction open
    tree,    \* the source tree as the last pass found it: path -> content,
             \* "absent" or "unreadable"
    ix,      \* index_codebase's locals and its position
    last,    \* the last operation called on the handle and how it ended
    used,    \* operations made so far, against the bounds
    impact,  \* analyze_impact's locals and its position
    mcp      \* the tool server: its reindex request and what a query saw

vars == <<db, saved, inTxn, tree, ix, last, used, impact, mcp>>

IndexStats ==
    [files |-> 0, nodes |-> 0, edges |-> 0, skipped |-> 0, errors |-> 0,
     resolved_refs |-> 0]

IxIdle ==
    [pc |-> "idle", todo |-> {}, path |-> "",
     result |-> ExtractionResult(<<>>, <<>>, <<>>, 0),
     id_map |-> <<>>, i |-> 0, node_count |-> 0, stats |-> IndexStats,
     rerun |-> FALSE]

ImpactIdle ==
    [pc |-> "idle", root |-> None, depth |-> 0, visited |-> {}, queue |-> <<>>,
     current_depth |-> 0, callers |-> <<>>,
     direct_callers |-> <<>>, indirect_callers |-> <<>>, total_impact |-> 0,
     pushed |-> <<>>]

\* The tool server with no reindex request made and no query served.
McpIdle == [pc |-> "idle", files |-> <<>>, before |-> SCHEMA, seen |-> None]

Last(op, arg, st, ret) == [op |-> op, arg |-> arg, st |-> st, ret |-> ret]
St(r) == IF r.ok THEN "ok" ELSE "err"

Init ==
    /\ db = SCHEMA
    /\ saved = SCHEMA
    /\ inTxn = FALSE
    /\ tree = Project
    /\ ix = IxIdle
    /\ last = Last("open", "", "ok", 0)
    /\ used = 0
    /\ impact = ImpactIdle
    /\ mcp = McpIdle

\* ------------------------------------------- the store's API, called directly
Idle == ix.pc = "idle" /\ used < MaxOps

Called(op, arg, r) ==
    /\ db' = r.db
    /\ last' = Last(op, arg, St(r), r.ret)
    /\ used' = used + 1
    /\ UNCHANGED <<saved, inTxn, tree, ix, impact, mcp>>

Call_insert_or_update_file(path, hash) ==
    /\ Idle
    /\ Called("insert_or_update_file", path,
              insert_or_update_file(db, FileRecord(path, hash, 0)))

Call_insert_node(name, path) ==
    /\ Idle
    /\ Called("insert_node", path, insert_node(db, Node(0, "Function", name, path)))

Call_insert_edge(src, tgt, kind) ==
    /\ Idle
    /\ Called("insert_edge", "", insert_edge(db, Edge(0, src, tgt, kind, None, None, None)))

Call_insert_unresolved_ref(src, name, path, site) ==
    /\ Idle
    /\ Called("insert_unresolved_ref", path,
              insert_unresolved_ref(db,
                  UnresolvedReference(0, src, name, "calls", path, site[1], site[2])))

Call_resolve_references(pick) ==
    /\ Idle
    /\ Called("resolve_references", "", resolve_references(db, pick))

Call_delete_file(path) ==
    /\ Idle
    /\ Called("delete_file", path, delete_file(db, path))

\* ------------------------------------------------------------ the index pass
\* How a store operation of the pass can fail beyond a constraint violation:
\* "stmt" fails the statement and leaves the transaction open (SQLITE_BUSY),
\* "rollback" is a failure on which SQLite rolls the transaction back itself
\* (SQLITE_FULL, SQLITE_IOERR).
Faults == {"none", "stmt", "rollback"}

\* A store operation of the pass under a fault: r is what it returns otherwise.
Faulted(fault, r) == IF fault = "none" THEN r ELSE Err(db)

\* index_codebase returns Err through `?`: no ROLLBACK is issued.
Abort(fault, r) ==
    /\ ~ Faulted(fault, r).ok
    /\ IF fault = "rollback"
       THEN db' = saved /\ inTxn' = FALSE /\ saved' = SCHEMA
       ELSE db' = Faulted(fault, r).db /\ UNCHANGED <<inTxn, saved>>
    /\ ix' = IxIdle
    /\ last' = Last("index_codebase", "", "err", 0)
    /\ UNCHANGED <<tree, used, impact, mcp>>

\* The operation succeeded: the pass goes on as x.
Continue(fault, r, x) ==
    /\ Faulted(fault, r).ok
    /\ db' = r.db
    /\ ix' = x
    /\ UNCHANGED <<saved, inTxn, tree, last, used, impact, mcp>>

\* The source tree a pass can find after tree t: t itself, or t with one file
\* edited, added, removed or made unreadable.
Edits(t) == {u \in [Paths -> FileStates] : Cardinality({p \in Paths : u[p] # t[p]}) <= 1}

\* The files the walker yields: every file of the tree.
WalkEntries(t) == {p \in DOMAIN t : t[p] # "absent"}

\* index_codebase is called with the source tree as t: db.begin_transaction()?,
\* after which the walk starts.
IndexBegin(t) ==
    /\ Idle
    /\ used' = used + 1
    /\ tree' = t
    /\ UNCHANGED <<impact, mcp>>
    /\ IF inTxn
       THEN /\ last' = Last("index_codebase", "", "err", 0)
            /\ UNCHANGED <<db, saved, inTxn, ix>>
       ELSE /\ inTxn' = TRUE
            /\ saved' = db
            /\ ix' = [IxIdle EXCEPT !.pc = "walk", !.todo = WalkEntries(t),
                        !.rerun = (last.op = "index_codebase" /\ last.st = "ok"
                                   /\ t = tree)]
            /\ last' = Last("index_codebase", "", "running", 0)
            /\ UNCHANGED db

\* The next entry of the walk: read it, hash it, ask the change gate.
IndexWalk(path, fault) ==
    /\ ix.pc = "walk"
    /\ path \in ix.todo
    /\ LET x == [ix EXCEPT !.todo = @ \ {path}]
       IN IF tree[path] = "unreadable"
          THEN Continue("none", Ok(db, 0), [x EXCEPT !.stats.errors = @ + 1])
          ELSE LET gate == needs_reindex(db, path, content_hash_of(tree[path]))
               IN \/ Abort(fault, Ok(db, 0))
                  \/ Continue(fault, Ok(db, 0),
                        IF gate THEN [x EXCEPT !.pc = "delete", !.path = path]
                        ELSE [x EXCEPT !.stats.skipped = @ + 1])

\* db.delete_file(&rel_path)?, then the extraction.
IndexDelete(fault) ==
    /\ ix.pc = "delete"
    /\ LET r == delete_file(db, ix.path)
       IN \/ Abort(fault, r)
          \/ Continue(fault, r,
                [ix EXCEPT !.pc = "file",
                           !.result = extract_file(ix.path, tree[ix.path])])

\* Leave the loops over the extracted nodes, edges and references that are done.
Settle(x) ==
    LET a == IF x.pc = "nodes" /\ x.i > Len(x.result.nodes)
             THEN [x EXCEPT !.pc = "edges", !.i = 1] ELSE x
        b == IF a.pc = "edges" /\ a.i > Len(a.result.edges)
             THEN [a EXCEPT !.pc = "urefs", !.i = 1] ELSE a
    IN IF b.pc = "urefs" /\ b.i > Len(b.result.unresolved_refs)
       THEN [b EXCEPT !.pc = "file2", !.i = 0] ELSE b

\* The pass without the first write of the file record.
IndexFile_not_written(fault) ==
    /\ ix.pc = "file"
    /\ Continue("none", Ok(db, 0),
                Settle([ix EXCEPT !.pc = "nodes", !.i = 1, !.id_map = <<>>,
                                  !.node_count = 0]))

\* The file record, stored first: nodes have a foreign key to files.
IndexFile(fault) ==
    /\ ix.pc = "file"
    /\ LET rec == FileRecord(ix.path, content_hash_of(tree[ix.path]),
                             Len(ix.result.nodes))
           r == insert_or_update_file(db, rec)
       IN \/ Abort(fault, r)
          \/ Continue(fault, r,
                Settle([ix EXCEPT !.pc = "nodes", !.i = 1, !.id_map = <<>>,
                                  !.node_count = 0]))

\* One extracted node: stored under a new id, which id_map remembers.
IndexNode(fault) ==
    /\ ix.pc = "nodes"
    /\ LET node == ix.result.nodes[ix.i]
           r == insert_node(db, [node EXCEPT !.id = 0])
       IN \/ Abort(fault, r)
          \/ Continue(fault, r,
                Settle([ix EXCEPT !.id_map = (node.id :> r.ret) @@ @,
                                  !.node_count = @ + 1, !.i = @ + 1]))

\* One extracted edge: stored when both its ends are in id_map, else dropped.
IndexEdge(fault) ==
    /\ ix.pc = "edges"
    /\ LET edge == ix.result.edges[ix.i]
           x == Settle([ix EXCEPT !.i = @ + 1])
       IN IF edge.source_id \in DOMAIN ix.id_map /\ edge.target_id \in DOMAIN ix.id_map
          THEN LET r == insert_edge(db, [edge EXCEPT
                                           !.source_id = ix.id_map[edge.source_id],
                                           !.target_id = ix.id_map[edge.target_id]])
               IN \/ Abort(fault, r)
                  \/ Continue(fault, r, [x EXCEPT !.stats.edges = @ + 1])
          ELSE Continue("none", Ok(db, 0), x)

\* One extracted reference: stored when its source is in id_map, else dropped.
IndexUref(fault) ==
    /\ ix.pc = "urefs"
    /\ LET uref == ix.result.unresolved_refs[ix.i]
           x == Settle([ix EXCEPT !.i = @ + 1])
       IN IF uref.source_node_id \in DOMAIN ix.id_map
          THEN LET r == insert_unresolved_ref(db,
                            [uref EXCEPT !.source_node_id = ix.id_map[uref.source_node_id]])
               IN \/ Abort(fault, r)
                  \/ Continue(fault, r, x)
          ELSE Continue("none", Ok(db, 0), x)

\* The file record again, with the number of nodes stored; the stats.
IndexFileCount(fault) ==
    /\ ix.pc = "file2"
    /\ LET rec == FileRecord(ix.path, content_hash_of(tree[ix.path]), ix.node_count)
           r == insert_or_update_file(db, rec)
       IN \/ Abort(fault, r)
          \/ Continue(fault, r,
                [ix EXCEPT !.pc = "walk", !.path = "",
                           !.stats.files = @ + 1,
                           !.stats.nodes = @ + ix.node_count,
                           !.stats.errors = @ + ix.result.errors])

\* The pass without its resolve step: from the walk straight to the commit.
IndexResolve_not_run(pick, fault) ==
    /\ ix.pc = "walk"
    /\ ix.todo = {}
    /\ Continue("none", Ok(db, 0), [ix EXCEPT !.pc = "commit"])

\* The walk is over: db.resolve_references()?.
IndexResolve(pick, fault) ==
    /\ ix.pc = "walk"
    /\ ix.todo = {}
    /\ LET r == resolve_references(db, pick)
       IN \/ Abort(fault, r)
          \/ Continue(fault, r,
                [ix EXCEPT !.pc = "commit", !.stats.resolved_refs = r.ret])

\* db.commit()?; Ok(stats).
IndexCommit(fault) ==
    /\ ix.pc = "commit"
    /\ \/ Abort(fault, Ok(db, 0))
       \/ /\ fault = "none"
          /\ inTxn' = FALSE
          /\ saved' = SCHEMA
          /\ ix' = [IxIdle EXCEPT !.stats = ix.stats, !.rerun = ix.rerun]
          /\ last' = Last("index_codebase", "", "ok", 0)
          /\ UNCHANGED <<db, tree, used, impact, mcp>>

\* ------------------------------------------------------------ specification
\* Node ids passed to the API: every stored node's, and one that is no node's.
IdArgs == NodeIds(db) \cup {db.seq.nodes + 1}

Next ==
    \/ \E path \in Paths, hash \in Hashes : Call_insert_or_update_file(path, hash)
    \/ \E name \in Names, path \in Paths : Call_insert_node(name, path)
    \/ \E src, tgt \in IdArgs, kind \in EdgeKinds :
          Call_insert_edge(src, tgt, kind)
    \/ \E src \in IdArgs, name \in Names, path \in Paths, site \in Sites :
          Call_insert_unresolved_ref(src, name, path, site)
    \/ \E pick \in Picks : Call_resolve_references(pick)
    \/ \E path \in Paths : Call_delete_file(path)
    \/ \E t \in Edits(tree) : IndexBegin(t)
    \/ \E path \in Paths, fault \in Faults : IndexWalk(path, fault)
    \/ \E fault \in Faults : IndexDelete(fault)
    \/ \E fault \in Faults : IndexFile(fault)
    \/ \E fault \in Faults : IndexNode(fault)
    \/ \E fault \in Faults : IndexEdge(fault)
    \/ \E fault \in Faults : IndexUref(fault)
    \/ \E fault \in Faults : IndexFileCount(fault)
    \/ \E pick \in Picks, fault \in Faults : IndexResolve(pick, fault)
    \/ \E fault \in Faults : IndexCommit(fault)

Spec == Init /\ [][Next]_vars

\* ------------------------------------------- passes over a tree of two languages
\* The paths of a tree that also holds a C# file, for which there is no
\* grammar; config.extensions is empty or names cs.
WalkPaths == Paths \cup {"c.cs"}

EditsOfAny(t) ==
    {u \in [WalkPaths -> FileStates] : Cardinality({p \in WalkPaths : u[p] # t[p]}) <= 1}

InitIndex ==
    /\ db = SCHEMA
    /\ saved = SCHEMA
    /\ inTxn = FALSE
    /\ tree = [p \in WalkPaths |-> IF p \in Paths THEN Project[p] ELSE "absent"]
    /\ ix = IxIdle
    /\ last = Last("open", "", "ok", 0)
    /\ used = 0
    /\ impact = ImpactIdle
    /\ mcp = McpIdle

NextIndex ==
    \/ \E t \in EditsOfAny(tree) : IndexBegin(t)
    \/ \E path \in WalkPaths, fault \in Faults : IndexWalk(path, fault)
    \/ \E fault \in Faults : IndexDelete(fault)
    \/ \E fault \in Faults : IndexFile(fault)
    \/ \E fault \in Faults : IndexNode(fault)
    \/ \E fault \in Faults : IndexEdge(fault)
    \/ \E fault \in Faults : IndexUref(fault)
    \/ \E fault \in Faults : IndexFileCount(fault)
    \/ \E pick \in Picks, fault \in Faults : IndexResolve(pick, fault)
    \/ \E fault \in Faults : IndexCommit(fault)

SpecIndex == InitIndex /\ [][NextIndex]_vars

\* ---------------------------------------------------------- analyze_impact
\* The functions of a call graph, beside the file node that contains them.
GraphNodes == 3
\* The calls edges of a call graph, an edge stored twice counted twice.
GraphEdges == 4
\* The depths analyze_impact is asked for: 0..MaxDepth.
MaxDepth == 3
\* get_callers' limit in analyze_impact.
ImpactFanout == 100

FnName(i) == "f" \o ToString(i)
FnNames == {FnName(i) : i \in 1..GraphNodes}
\* Function i has node id i + 1: the file node is stored first.
CallPairs == (2..(GraphNodes + 1)) \X (2..(GraphNodes + 1))

RECURSIVE insert_nodes(_, _)
insert_nodes(d, nodes) ==
    IF nodes = <<>> THEN d ELSE insert_nodes(insert_node(d, Head(nodes)).db, Tail(nodes))

RECURSIVE insert_edges(_, _)
insert_edges(d, es) ==
    IF es = <<>> THEN d ELSE insert_edges(insert_edge(d, Head(es)).db, Tail(es))

\* The pairs of a set in lexicographic order.
RECURSIVE InOrder(_)
InOrder(pairs) ==
    IF pairs = {} THEN <<>>
    ELSE LET p == CHOOSE x \in pairs : \A y \in pairs :
                      x[1] < y[1] \/ (x[1] = y[1] /\ x[2] <= y[2])
         IN <<p>> \o InOrder(pairs \ {p})

\* The store of one file with GraphNodes functions, built through the
\* store's API: a calls edge for every pair of calls, a second one for every
\* pair of twice.
GraphStore(calls, twice) ==
    LET path == "a.rs"
        d0 == insert_or_update_file(SCHEMA, FileRecord(path, "h_old", GraphNodes + 1)).db
        d1 == insert_nodes(d0, <<Node(0, "File", path, path)>>
                  \o [i \in 1..GraphNodes |-> Node(0, "Function", FnName(i), path)])
        d2 == insert_edges(d1, [i \in 1..GraphNodes |->
                  Edge(0, 1, i + 1, "contains", Some(path), Some(i), Some(0))])
        call(p) == Edge(0, p[1], p[2], "calls", Some(path), Some(p[1] - 1), Some(4))
        seq(pairs) == [i \in 1..Cardinality(pairs) |-> call(InOrder(pairs)[i])]
    IN insert_edges(d2, seq(calls) \o seq(twice))

InitImpact ==
    /\ \E calls \in SUBSET CallPairs :
          /\ \E twice \in SUBSET calls :
                /\ Cardinality(twice) <= 1
                /\ Cardinality(calls) + Cardinality(twice) <= GraphEdges
                /\ db = GraphStore(calls, twice)
    /\ saved = SCHEMA
    /\ inTxn = FALSE
    /\ tree = Project
    /\ ix = IxIdle
    /\ last = Last("open", "", "ok", 0)
    /\ used = 0
    /\ impact = ImpactIdle
    /\ mcp = McpIdle

\* analyze_impact that does not put the root in its visited set.
ImpactStart_root_not_visited(symbol_name, depth, pick) ==
    /\ impact.pc = "idle"
    /\ LET root == find_node_by_name(db, symbol_name, pick)
       IN impact' =
            IF root = None
            THEN [ImpactIdle EXCEPT !.pc = "done", !.depth = depth]
            ELSE [ImpactIdle EXCEPT !.pc = "loop", !.depth = depth, !.root = root,
                                    !.queue = << <<root[1].id, 0>> >>,
                                    !.pushed = <<root[1].id>>]
    /\ UNCHANGED <<db, saved, inTxn, tree, ix, last, used, mcp>>

\* analyze_impact(symbol_name, depth) up to its loop.
ImpactStart(symbol_name, depth, pick) ==
    /\ impact.pc = "idle"
    /\ LET root == find_node_by_name(db, symbol_name, pick)
       IN impact' =
            IF root = None
            THEN [ImpactIdle EXCEPT !.pc = "done", !.depth = depth]
            ELSE [ImpactIdle EXCEPT !.pc = "loop", !.depth = depth, !.root = root,
                                    !.visited = {root[1].id},
                                    !.queue = << <<root[1].id, 0>> >>,
                                    !.pushed = <<root[1].id>>]
    /\ UNCHANGED <<db, saved, inTxn, tree, ix, last, used, mcp>>

\* A visited set that reports no id as a member.
visited_contains_nothing(visited, id) == FALSE

visited_contains(visited, id) == id \in visited

\* ImpactStep with the depth test one level late: > for >=.
ImpactStep_one_level_deeper ==
    /\ impact.pc = "loop"
    /\ impact.queue # <<>>
    /\ LET node_id == Head(impact.queue)[1]
           current_depth == Head(impact.queue)[2]
           callers == IF current_depth > impact.depth THEN <<>>
                      ELSE get_callers(db, node_id, ImpactFanout)
       IN impact' = [impact EXCEPT !.queue = Tail(@),
                                   !.current_depth = current_depth,
                                   !.callers = callers,
                                   !.pc = IF callers = <<>> THEN "loop" ELSE "for"]
    /\ UNCHANGED <<db, saved, inTxn, tree, ix, last, used, mcp>>

\* One turn of the while loop up to its for loop: pop the front of the queue
\* and, short of the depth asked for, fetch the callers of the node.
ImpactStep ==
    /\ impact.pc = "loop"
    /\ impact.queue # <<>>
    /\ LET node_id == Head(impact.queue)[1]
           current_depth == Head(impact.queue)[2]
           callers == IF current_depth >= impact.depth THEN <<>>
                      ELSE get_callers(db, node_id, ImpactFanout)
       IN impact' = [impact EXCEPT !.queue = Tail(@),
                                   !.current_depth = current_depth,
                                   !.callers = callers,
                                   !.pc = IF callers = <<>> THEN "loop" ELSE "for"]
    /\ UNCHANGED <<db, saved, inTxn, tree, ix, last, used, mcp>>

\* One turn of the for loop over the callers.
ImpactVisit ==
    /\ impact.pc = "for"
    /\ LET caller == Head(impact.callers)
           rest == [impact EXCEPT !.callers = Tail(@),
                                  !.pc = IF Tail(impact.callers) = <<>> THEN "loop" ELSE "for"]
       IN impact' =
            IF visited_contains(impact.visited, caller.id) THEN rest
            ELSE [rest EXCEPT
                    !.visited = @ \cup {caller.id},
                    !.direct_callers =
                        IF impact.current_depth = 0 THEN Append(@, caller) ELSE @,
                    !.indirect_callers =
                        IF impact.current_depth = 0 THEN @ ELSE Append(@, caller),
                    !.queue = Append(@, <<caller.id, impact.current_depth + 1>>),
                    !.pushed = Append(@, caller.id)]
    /\ UNCHANGED <<db, saved, inTxn, tree, ix, last, used, mcp>>

\* The queue is empty: the loop ends and the analysis is returned.
ImpactReturn ==
    /\ impact.pc = "loop"
    /\ impact.queue = <<>>
    /\ impact' = [impact EXCEPT
                    !.pc = "done",
                    !.total_impact = Len(impact.direct_callers) + Len(impact.indirect_callers)]
    /\ UNCHANGED <<db, saved, inTxn, tree, ix, last, used, mcp>>

NextImpact ==
    \/ \E symbol_name \in FnNames \cup {"a.rs", "nothing"}, depth \in 0..MaxDepth,
          pick \in Picks : ImpactStart(symbol_name, depth, pick)
    \/ ImpactStep
    \/ ImpactVisit
    \/ ImpactReturn

\* analyze_impact is one call on one thread: once called it runs on.
SpecImpact == InitImpact /\ [][NextImpact]_vars /\ WF_vars(NextImpact)

\* -------------------------------------------------------- extract_subgraph
\* The seeds of a subgraph: at most MaxSeeds node ids.
MaxSeeds == 2
\* The limits and depths extract_subgraph is asked for: 0..MaxSubgraph.
MaxSubgraph == 2
\* The calls edges of a store a subgraph is taken from.
SubgraphEdges == 2

TraversalOptions(max_depth, edge_kinds, node_kinds, limit) ==
    [max_depth |-> max_depth, edge_kinds |-> edge_kinds, node_kinds |-> node_kinds,
     limit |-> limit]

\* The locals of extract_subgraph.
SubgraphLocals(nodes, edges, visited, queue) ==
    [nodes |-> nodes, edges |-> edges, visited |-> visited, queue |-> queue]

\* The seeds that exist, as nodes.
RECURSIVE seed_nodes(_, _)
seed_nodes(d, node_ids) ==
    IF node_ids = <<>> THEN {}
    ELSE LET node == get_node(d, Head(node_ids))
         IN (IF node = None THEN {} ELSE {node[1]}) \cup seed_nodes(d, Tail(node_ids))

\* One of the for loops over the edges of a node: end is the end of an edge
\* that the loop expands to.
RECURSIVE expand_edges(_, _, _, _, _, _)
expand_edges(d, x, es, end, depth, options) ==
    IF es = <<>> THEN x
    ELSE LET edge == Head(es)
             other_id == IF end = "target" THEN edge.target_id ELSE edge.source_id
             other == get_node(d, other_id)
             pushed == [x EXCEPT !.edges = Append(@, edge)]
             added == [pushed EXCEPT !.visited = @ \cup {other_id},
                                     !.nodes = @ \cup {other[1]},
                                     !.queue = Append(@, <<other_id, depth + 1>>)]
         IN IF options.edge_kinds # None /\ edge.kind \notin options.edge_kinds[1]
            THEN expand_edges(d, x, Tail(es), end, depth, options)
            ELSE IF other_id \in x.visited \/ other = None
            THEN expand_edges(d, pushed, Tail(es), end, depth, options)
            ELSE IF options.node_kinds # None /\ other[1].kind \notin options.node_kinds[1]
            THEN expand_edges(d, pushed, Tail(es), end, depth, options)
            ELSE IF Cardinality(added.nodes) >= options.limit
            THEN added
            ELSE expand_edges(d, added, Tail(es), end, depth, options)

\* The while loop.
RECURSIVE expand_queue(_, _, _)
expand_queue(d, x, options) ==
    IF x.queue = <<>> THEN x
    ELSE LET node_id == Head(x.queue)[1]
             depth == Head(x.queue)[2]
             popped == [x EXCEPT !.queue = Tail(@)]
             out == expand_edges(d, popped, get_outgoing_edges(d, node_id), "target",
                                 depth, options)
             in == expand_edges(d, out, get_incoming_edges(d, node_id), "source",
                                depth, options)
         IN IF depth >= options.max_depth THEN expand_queue(d, popped, options)
            ELSE IF Cardinality(in.nodes) >= options.limit THEN in
            ELSE expand_queue(d, in, options)

extract_subgraph(d, node_ids, options) ==
    LET seeds == seed_nodes(d, node_ids)
        x == expand_queue(d,
                 SubgraphLocals(seeds, <<>>, {n.id : n \in seeds},
                                [i \in DOMAIN node_ids |-> <<node_ids[i], 0>>]),
                 options)
    IN [nodes |-> x.nodes, edges |-> x.edges]

RECURSIVE SeedsUpTo(_, _)
SeedsUpTo(n, ids) ==
    IF n = 0 THEN {<<>>}
    ELSE LET shorter == SeedsUpTo(n - 1, ids)
         IN shorter \cup {Append(q, id) : q \in shorter, id \in ids}

\* A query reads the store and changes nothing in it: one query is followed
\* from each store.
Call_extract_subgraph(node_ids, options) ==
    /\ last.op = "open"
    /\ last' = Last("extract_subgraph", [node_ids |-> node_ids, options |-> options],
                    "ok", extract_subgraph(db, node_ids, options))
    /\ UNCHANGED <<db, saved, inTxn, tree, ix, used, impact, mcp>>

NextSubgraph ==
    \E node_ids \in SeedsUpTo(MaxSeeds, NodeIds(db) \cup {db.seq.nodes + 1}),
       max_depth \in 0..MaxSubgraph, limit \in 0..MaxSubgraph,
       edge_kinds \in {None, Some({"calls"})},
       node_kinds \in {None, Some({"Function"})} :
        Call_extract_subgraph(node_ids,
            TraversalOptions(max_depth, edge_kinds, node_kinds, limit))

\* The stores of InitImpact with at most SubgraphEdges calls edges.
InitSubgraph ==
    /\ InitImpact
    /\ Cardinality({e \in db.edges : e.kind = "calls"}) <= SubgraphEdges

SpecSubgraph == InitSubgraph /\ [][NextSubgraph]_vars

\* ------------------------------------------------- files, written and read
\* The records handed to insert_or_update_file: any language, any size.
FileRecords ==
    {FullFileRecord(path, hash, language, size, modified_at, n) :
        path \in {"a.rs"}, hash \in {"h_f", "h_old"}, language \in Languages,
        size \in 0..(2 ^ SizeBits - 1), modified_at \in {0}, n \in 0..1}

\* A store that is empty or holds a row for some record.
InitFiles ==
    /\ \/ db = SCHEMA
       \/ \E rec \in {r \in FileRecords : r.size = 0 /\ r.node_count = 0} :
             db = insert_or_update_file(SCHEMA, rec).db
    /\ saved = SCHEMA
    /\ inTxn = FALSE
    /\ tree = Project
    /\ ix = IxIdle
    /\ last = Last("open", "", "ok", 0)
    /\ used = 0
    /\ impact = ImpactIdle
    /\ mcp = McpIdle

Call_upsert_file(file) ==
    /\ last.op = "open"
    /\ LET r == insert_or_update_file(db, file)
       IN /\ db' = r.db
          /\ last' = Last("insert_or_update_file", file, St(r), r.ret)
    /\ UNCHANGED <<saved, inTxn, tree, ix, used, impact, mcp>>

\* get_file(rec.path) after insert_or_update_file(rec): reads, and changes
\* nothing.
Call_get_file ==
    /\ last.op = "insert_or_update_file"
    /\ last' = Last("get_file", last.arg, "ok", get_file(db, last.arg.path))
    /\ UNCHANGED <<db, saved, inTxn, tree, ix, used, impact, mcp>>

NextFiles ==
    \/ \E file \in FileRecords : Call_upsert_file(file)
    \/ Call_get_file

SpecFiles == InitFiles /\ [][NextFiles]_vars

\* ------------------------------------------------------------ search_nodes
\* Names and queries are sequences of characters here, of at most
\* MaxNameLen characters.
MaxNameLen == 2
\* The nodes of a searched store.
SearchNodes == 2
\* The limits search_nodes is called with: 0..MaxLimit.
MaxLimit == 2

Chars == {"%", "A", "_", "a", "É"}
\* Code points: the order of UTF-8 bytes, which BINARY collation compares.
CharCode(c) ==
    CASE c = "%" -> 37 [] c = "A" -> 65 [] c = "_" -> 95 [] c = "a" -> 97
      [] c = "É" -> 201 [] c = "é" -> 233

\* str::to_lowercase follows Unicode.
char_to_lowercase(c) == CASE c = "A" -> "a" [] c = "É" -> "é" [] OTHER -> c
to_lowercase(str) == [i \in DOMAIN str |-> char_to_lowercase(str[i])]

\* SQLite's LOWER() converts ASCII characters only.
sqlite_lower_char(c) == IF c = "A" THEN "a" ELSE c
sqlite_lower(str) == [i \in DOMAIN str |-> sqlite_lower_char(str[i])]

\* X LIKE P: % matches any run of characters, _ any one character, any other
\* character itself, upper and lower case alike for ASCII characters only.
RECURSIVE sqlite_like(_, _)
sqlite_like(pattern, text) ==
    IF pattern = <<>> THEN text = <<>>
    ELSE IF Head(pattern) = "%"
         THEN \E k \in 0..Len(text) :
                 sqlite_like(Tail(pattern), SubSeq(text, k + 1, Len(text)))
         ELSE /\ text # <<>>
              /\ \/ Head(pattern) = "_"
                 \/ sqlite_lower_char(Head(pattern)) = sqlite_lower_char(Head(text))
              /\ sqlite_like(Tail(pattern), Tail(text))

\* memcmp order of two names.
RECURSIVE name_less(_, _)
name_less(a, b) ==
    IF a = <<>> THEN b # <<>>
    ELSE IF b = <<>> THEN FALSE
    ELSE IF Head(a) # Head(b) THEN CharCode(Head(a)) < CharCode(Head(b))
    ELSE name_less(Tail(a), Tail(b))

\* ORDER BY LENGTH(name), name: a row comes before another.
order_before(m, n, pick) ==
    \/ Len(m.name) < Len(n.name)
    \/ Len(m.name) = Len(n.name) /\ name_less(m.name, n.name)
    \/ m.name = n.name /\ (IF pick = "lo" THEN m.id < n.id ELSE m.id > n.id)

RECURSIVE Ordered(_, _)
Ordered(rows, pick) ==
    IF rows = {} THEN <<>>
    ELSE LET r == CHOOSE x \in rows : \A y \in rows \ {x} : order_before(x, y, pick)
         IN <<r>> \o Ordered(rows \ {r}, pick)

pattern_of(query) == to_lowercase(query) \o <<"%">>

\* kind is None or Some(kind); rows of equal names come in either order.
search_nodes(d, query, kind, limit, pick) ==
    LET pattern == pattern_of(query)
        hits == {n \in d.nodes :
                    /\ sqlite_like(pattern, sqlite_lower(n.name))
                    /\ kind # None => n.kind = NodeKind_as_str(kind[1])}
        rows == Take(Ordered(hits, pick), limit)
    IN [i \in DOMAIN rows |-> row_to_node(rows[i])]

RECURSIVE SeqsUpTo(_, _)
SeqsUpTo(n, chars) ==
    IF n = 0 THEN {<<>>}
    ELSE LET shorter == SeqsUpTo(n - 1, chars)
         IN shorter \cup {Append(q, c) : q \in shorter, c \in chars}
Queries == SeqsUpTo(MaxNameLen, Chars)
\* The names of symbols hold no %.
SearchNames == SeqsUpTo(MaxNameLen, Chars \ {"%"}) \ {<<>>}
SearchKinds == {"Function", "Struct"}

\* A store of one file with SearchNodes symbols, built through the API.
SearchStore(symbols) ==
    LET d0 == insert_or_update_file(SCHEMA, FileRecord("a.rs", "h_old", Len(symbols))).db
    IN insert_nodes(d0, [i \in DOMAIN symbols |->
                            Node(0, symbols[i][1], symbols[i][2], "a.rs")])

InitSearch ==
    /\ \E symbols \in [1..SearchNodes -> SearchKinds \X SearchNames] :
          db = SearchStore(symbols)
    /\ saved = SCHEMA
    /\ inTxn = FALSE
    /\ tree = Project
    /\ ix = IxIdle
    /\ last = Last("open", "", "ok", 0)
    /\ used = 0
    /\ impact = ImpactIdle
    /\ mcp = McpIdle

\* A query reads the store and changes nothing in it: one query is followed
\* from each store.
Call_search_nodes(query, kind, limit, pick) ==
    /\ last.op = "open"
    /\ last' = Last("search_nodes", [query |-> query, kind |-> kind, limit |-> limit],
                    "ok", search_nodes(db, query, kind, limit, pick))
    /\ UNCHANGED <<db, saved, inTxn, tree, ix, used, impact, mcp>>

NextSearch ==
    \E query \in Queries, kind \in {None} \cup {Some(k) : k \in SearchKinds},
       limit \in 0..MaxLimit, pick \in Picks :
        Call_search_nodes(query, kind, limit, pick)

SpecSearch == InitSearch /\ [][NextSearch]_vars

\* ------------------------------------------------- the string encodings
\* The four enumerations stored as strings, each with its values.
Enums ==
    {[enum |-> "NodeKind", value |-> v] : v \in NodeKinds}
    \cup {[enum |-> "EdgeKind", value |-> v] : v \in EdgeKindValues}
    \cup {[enum |-> "Visibility", value |-> v] : v \in Visibilities}
    \cup {[enum |-> "Language", value |-> v] : v \in Languages}

\* A store with the row of one file.
InitKinds ==
    /\ db = insert_or_update_file(SCHEMA, FileRecord("a.rs", "h_old", 0)).db
    /\ saved = SCHEMA
    /\ inTxn = FALSE
    /\ tree = Project
    /\ ix = IxIdle
    /\ last = Last("open", "", "ok", 0)
    /\ used = 0
    /\ impact = ImpactIdle
    /\ mcp = McpIdle

Call_as_str(e) ==
    /\ last.op = "open"
    /\ last' = Last("as_str", e, "ok",
                    CASE e.enum = "NodeKind" -> NodeKind_as_str(e.value)
                      [] e.enum = "EdgeKind" -> EdgeKind_as_str(e.value)
                      [] e.enum = "Visibility" -> Visibility_as_str(e.value)
                      [] e.enum = "Language" -> Language_as_str(e.value))
    /\ UNCHANGED <<db, saved, inTxn, tree, ix, used, impact, mcp>>

\* The string as_str gave, decoded as a column of that enumeration is.
Call_parse ==
    /\ last.op = "as_str"
    /\ last' = Last("parse", last.arg, "ok",
                    CASE last.arg.enum = "NodeKind" -> NodeKind_from_str(last.ret)
                      [] last.arg.enum = "EdgeKind" -> EdgeKind_from_str(last.ret)
                      [] last.arg.enum = "Visibility" -> Visibility_from_str(last.ret)
                      [] last.arg.enum = "Language" -> Language_parse(last.ret))
    /\ UNCHANGED <<db, saved, inTxn, tree, ix, used, impact, mcp>>

Call_insert_node_of(kind, visibility, language) ==
    /\ last.op = "open"
    /\ LET node == FullNode(0, kind, "f", "a.rs", visibility, language)
           r == insert_node(db, node)
       IN /\ db' = r.db
          /\ last' = Last("insert_node", node, St(r), r.ret)
    /\ UNCHANGED <<saved, inTxn, tree, ix, used, impact, mcp>>

\* The node just inserted, read back by its id or by its name.
Call_get_node ==
    /\ last.op = "insert_node" /\ last.st = "ok"
    /\ last' = Last("get_node", last.arg, "ok", get_node(db, last.ret))
    /\ UNCHANGED <<db, saved, inTxn, tree, ix, used, impact, mcp>>

Call_find_node_by_name(pick) ==
    /\ last.op = "insert_node" /\ last.st = "ok"
    /\ last' = Last("find_node_by_name", last.arg, "ok",
                    find_node_by_name(db, last.arg.name, pick))
    /\ UNCHANGED <<db, saved, inTxn, tree, ix, used, impact, mcp>>

NextKinds ==
    \/ \E e \in Enums : Call_as_str(e)
    \/ Call_parse
    \/ \E kind \in NodeKinds, visibility \in Visibilities, language \in Languages :
          Call_insert_node_of(kind, visibility, language)
    \/ Call_get_node
    \/ \E pick \in Picks : Call_find_node_by_name(pick)

SpecKinds == InitKinds /\ [][NextKinds]_vars

\* ------------------------------------------------------------ find_related
\* The limit of get_callees and get_callers in find_related.
RelatedFanout == 10
\* The calls edges of a store that related nodes are looked up in, and the
\* most nodes asked for.
RelatedCalls == 4
MaxRelated == 2

\* Symbol i of such a store: its kind and its name, a string of characters.
ContextSymbol(i) ==
    <<IF i % 2 = 1 THEN "Function" ELSE "Struct", [k \in 1..(i + 2) |-> "a"]>>

\* The store of one file with the given symbols and, in this order, the
\* given calls, built through the store's API.  Symbol i has node id i + 1.
ContextStore(symbols, calls) ==
    LET path == "a.rs"
        d0 == insert_or_update_file(SCHEMA, FileRecord(path, "h_old", Len(symbols) + 1)).db
        d1 == insert_nodes(d0, <<Node(0, "File", <<"a", ".", "r", "s">>, path)>>
                  \o [i \in DOMAIN symbols |->
                         Node(0, symbols[i][1], symbols[i][2], path)])
    IN insert_edges(d1, [i \in DOMAIN calls |->
                            Edge(0, calls[i][1], calls[i][2], "calls",
                                 Some(path), Some(i), Some(4))])

\* One of the loops over callees or callers: related is the HashMap, a set
\* of entries [node, score]; a score is counted in units of 1/12600, in
\* which 1.0 / (idx + 1) and 0.8 / (idx + 1) are whole for idx < 10.
RECURSIVE score_rows(_, _, _, _, _)
score_rows(related, visited, rows, idx, weight) ==
    IF rows = <<>> THEN related
    ELSE LET n == Head(rows)
             score == weight \div (idx + 1)
             hit == {r \in related : r.node.id = n.id}
             next == IF n.id \in visited THEN related
                     ELSE IF hit # {}
                     THEN (related \ hit) \cup {[r EXCEPT !.score = @ + score] : r \in hit}
                     ELSE related \cup {[node |-> n, score |-> score]}
         IN score_rows(next, visited, Tail(rows), idx + 1, weight)

\* for entry in entry_points { callees; callers }
RECURSIVE score_entries(_, _, _, _)
score_entries(related, visited, d, entry_points) ==
    IF entry_points = <<>> THEN related
    ELSE LET entry == Head(entry_points)
             callees == score_rows(related, visited,
                                   get_callees(d, entry.id, RelatedFanout), 0, 12600)
             callers == score_rows(callees, visited,
                                   get_callers(d, entry.id, RelatedFanout), 0, 10080)
         IN score_entries(callers, visited, d, Tail(entry_points))

\* find_related without the sort.
find_related_unsorted(d, entry_points, max_nodes) ==
    LET visited == {entry_points[i].id : i \in DOMAIN entry_points}
        related == score_entries({}, visited, d, entry_points)
        sorted == {s \in [1..Cardinality(related) -> related] :
                      \A i, j \in DOMAIN s : i # j => s[i] # s[j]}
    IN {[i \in 1..(IF Len(s) < max_nodes THEN Len(s) ELSE max_nodes) |-> s[i].node] :
           s \in sorted}

\* The results find_related can return: into_values() hands the entries of
\* the HashMap over in an order of its own and the sort is stable, so that
\* entries of equal score come in any order.
find_related(d, entry_points, max_nodes) ==
    LET visited == {entry_points[i].id : i \in DOMAIN entry_points}
        related == score_entries({}, visited, d, entry_points)
        sorted == {s \in [1..Cardinality(related) -> related] :
                      /\ \A i, j \in DOMAIN s : i # j => s[i] # s[j]
                      /\ \A i, j \in DOMAIN s : i < j => s[i].score >= s[j].score}
    IN {[i \in 1..(IF Len(s) < max_nodes THEN Len(s) ELSE max_nodes) |-> s[i].node] :
           s \in sorted}

\* The stores: any RelatedCalls calls among GraphNodes symbols, in any order,
\* and a store in which the first symbol calls the second RelatedFanout times
\* and then the third.
InitRelated ==
    /\ \E calls \in SeqsUpTo(RelatedCalls, CallPairs)
                     \cup {[i \in 1..(RelatedFanout + 1) |->
                               <<2, IF i <= RelatedFanout THEN 3 ELSE 4>>]} :
          db = ContextStore([i \in 1..GraphNodes |-> ContextSymbol(i)], calls)
    /\ saved = SCHEMA
    /\ inTxn = FALSE
    /\ tree = Project
    /\ ix = IxIdle
    /\ last = Last("open", "", "ok", 0)
    /\ used = 0
    /\ impact = ImpactIdle
    /\ mcp = McpIdle

\* A query reads the store and changes nothing in it: one query is followed
\* from each store.
Call_find_related(node_ids, max_nodes) ==
    /\ last.op = "open"
    /\ \E ret \in find_related(db, [i \in DOMAIN node_ids |-> get_node(db, node_ids[i])[1]],
                               max_nodes) :
          last' = Last("find_related", [node_ids |-> node_ids, max_nodes |-> max_nodes],
                       "ok", ret)
    /\ UNCHANGED <<db, saved, inTxn, tree, ix, used, impact, mcp>>

NextRelated ==
    \E node_ids \in SeedsUpTo(MaxSeeds, NodeIds(db)), max_nodes \in 0..MaxRelated :
        Call_find_related(node_ids, max_nodes)

SpecRelated == InitRelated /\ [][NextRelated]_vars

\* ----------------------------------------------------------- build_context
\* The limit of search_nodes in find_entry_points.
EntrySearchLimit == 5
\* The calls edges of a store a context is built from, and the most nodes
\* asked for.
ContextCalls == 2
MaxContextNodes == 4

\* A task is the sequence of words that the split of extract_keywords cuts
\* it into; a word is a sequence of characters.
Words == {<<"a", "a", "a">>, <<"a", "a", "a", "a">>, <<"a", "a", "a", "a", "a">>,
          <<"a", "a">>, <<"t", "h", "e">>}
\* The stop words that these words can be.
stop_words == {<<"t", "h", "e">>}

extract_keywords(task) ==
    SelectSeq(task, LAMBDA word : Len(word) > 2 /\ to_lowercase(word) \notin stop_words)

\* results.sort_by_key(..): a stable sort, functions and methods first.
sort_by_kind(results) ==
    LET key(n) == CASE n.kind \in {"Function", "Method"} -> 0
                    [] n.kind \in {"Class", "Struct"} -> 1
                    [] n.kind \in {"Interface", "Trait"} -> 2
                    [] OTHER -> 3
        of(k) == SelectSeq(results, LAMBDA n : key(n) = k)
    IN of(0) \o of(1) \o of(2) \o of(3)

\* for node in results { .. }
RECURSIVE push_results(_, _, _)
\* The loop without its test for a node that is an entry point already.
push_results_without_test(entry_points, results, limit) ==
    IF results = <<>> THEN entry_points
    ELSE LET pushed == Append(entry_points, Head(results))
         IN IF Len(pushed) >= limit THEN pushed
            ELSE push_results(pushed, Tail(results), limit)
push_results(entry_points, results, limit) ==
    IF results = <<>> THEN entry_points
    ELSE IF \E i \in DOMAIN entry_points : entry_points[i].id = Head(results).id
    THEN push_results(entry_points, Tail(results), limit)
    ELSE LET pushed == Append(entry_points, Head(results))
         IN IF Len(pushed) >= limit THEN pushed
            ELSE push_results(pushed, Tail(results), limit)

\* for keyword in keywords { .. }
RECURSIVE each_keyword(_, _, _, _, _)
each_keyword(d, entry_points, keywords, limit, pick) ==
    IF keywords = <<>> \/ Len(entry_points) >= limit THEN entry_points
    ELSE LET results == search_nodes(d, Head(keywords), None, EntrySearchLimit, pick)
         IN each_keyword(d, push_results(entry_points, sort_by_kind(results), limit),
                         Tail(keywords), limit, pick)

find_entry_points(d, task, limit, pick) ==
    each_keyword(d, <<>>, extract_keywords(task), limit, pick)

\* Step 3 of build_context: the edges between all nodes.
RECURSIVE context_edges(_, _, _)
context_edges(d, ids, all_node_ids) ==
    IF ids = <<>> THEN <<>>
    ELSE SelectSeq(get_outgoing_edges(d, Head(ids)),
                   LAMBDA edge : \E k \in DOMAIN all_node_ids :
                                    all_node_ids[k] = edge.target_id)
         \o context_edges(d, Tail(ids), all_node_ids)

\* The contexts build_context can return, without their code blocks, which
\* are read from the files of the project.
build_context(d, task, max_nodes, pick) ==
    LET entry_points == find_entry_points(d, task, max_nodes \div 2, pick)
        related == IF entry_points # <<>>
                   THEN find_related(d, entry_points, max_nodes \div 2)
                   ELSE {<<>>}
        ids(nodes) == [i \in DOMAIN nodes |-> nodes[i].id]
    IN {[entry_points |-> entry_points, related_nodes |-> related_nodes,
         edges |-> context_edges(d, ids(entry_points \o related_nodes),
                                 ids(entry_points \o related_nodes))] :
           related_nodes \in related}

\* The stores: any ContextCalls calls among GraphNodes symbols, in any order.
InitContext ==
    /\ \E calls \in SeqsUpTo(ContextCalls, CallPairs) :
          db = ContextStore([i \in 1..GraphNodes |-> ContextSymbol(i)], calls)
    /\ saved = SCHEMA
    /\ inTxn = FALSE
    /\ tree = Project
    /\ ix = IxIdle
    /\ last = Last("open", "", "ok", 0)
    /\ used = 0
    /\ impact = ImpactIdle
    /\ mcp = McpIdle

\* A query reads the store and changes nothing in it: one query is followed
\* from each store.
Call_build_context(task, max_nodes, pick) ==
    /\ last.op = "open"
    /\ \E ret \in build_context(db, task, max_nodes, pick) :
          last' = Last("build_context", [task |-> task, max_nodes |-> max_nodes],
                       "ok", ret)
    /\ UNCHANGED <<db, saved, inTxn, tree, ix, used, impact, mcp>>

NextContext ==
    \E task \in SeqsUpTo(2, Words), max_nodes \in 0..MaxContextNodes, pick \in Picks :
        Call_build_context(task, max_nodes, pick)

SpecContext == InitContext /\ [][NextContext]_vars

\* ------------------------------------------------- the extractor's traversal
\* A syntax tree of Rust: nodes 1..TreeNodes below the root (node 0, a
\* source_file), each with its parent, its node type and the text of its name
\* ("" when extract_name or extract_call_name finds none).  Node n starts in
\* row n - 1, column 0, and the children of a node are in the order of their numbers.
TreeNodes == 4
SyntaxKinds == {"function_item", "call_expression", "block"}
SyntaxTrees ==
    {t \in [1..TreeNodes -> [parent : 0..(TreeNodes - 1), kind : SyntaxKinds,
                              name : {"", "g"}]] :
        \A n \in 1..TreeNodes : t[n].parent < n /\ (t[n].kind = "block" => t[n].name = "")}

children(t, n) ==
    LET S == {i \in DOMAIN t : t[i].parent = n}
    IN [k \in 1..Cardinality(S) |-> CHOOSE i \in S : Cardinality({j \in S : j < i}) = k - 1]

\* RUST_CONFIG, for the node types of these trees.
node_type_to_kind(node_type) ==
    IF node_type = "function_item" THEN Some("Function") ELSE None
is_call_node(node_type) == node_type \in {"call_expression", "macro_invocation"}

ExtractionContext(result, file_path, node_stack, next_id) ==
    [result |-> result, file_path |-> file_path, node_stack |-> node_stack,
     next_id |-> next_id]

\* find_calls on node n and, in order, on each node of ns.
RECURSIVE find_calls(_, _, _, _)
RECURSIVE find_calls_each(_, _, _, _)
find_calls(ctx, t, n, source_id) ==
    LET found == IF is_call_node(t[n].kind) /\ t[n].name # ""
                 THEN [ctx EXCEPT !.result.unresolved_refs =
                          Append(@, UnresolvedReference(0, source_id, t[n].name, "calls",
                                                        ctx.file_path, n, 0))]
                 ELSE ctx
    IN find_calls_each(found, t, children(t, n), source_id)
find_calls_each(ctx, t, ns, source_id) ==
    IF ns = <<>> THEN ctx
    ELSE find_calls_each(find_calls(ctx, t, Head(ns), source_id), t, Tail(ns), source_id)

RECURSIVE traverse_node(_, _, _)
RECURSIVE traverse_each(_, _, _)
RECURSIVE extract_symbol(_, _, _, _)
traverse_node(ctx, t, n) ==
    LET kind == node_type_to_kind(t[n].kind)
    IN IF kind # None THEN extract_symbol(ctx, t, n, kind[1])
       ELSE traverse_each(ctx, t, children(t, n))
\* for child in node.children(..) { self.traverse_node(child) }
traverse_each(ctx, t, ns) ==
    IF ns = <<>> THEN ctx
    ELSE traverse_each(traverse_node(ctx, t, Head(ns)), t, Tail(ns))
\* extract_symbol without the pop that ends it.
extract_symbol_without_pop(ctx, t, n, kind) ==
    IF t[n].name = "" THEN traverse_each(ctx, t, children(t, n))
    ELSE LET symbol_id == ctx.next_id
             pushed == [ctx EXCEPT !.next_id = @ + 1,
                          !.result.nodes =
                              Append(@, Node(symbol_id, kind, t[n].name, ctx.file_path))]
             edged == IF ctx.node_stack # <<>>
                      THEN [pushed EXCEPT !.result.edges =
                              Append(@, Edge(0, ctx.node_stack[Len(ctx.node_stack)],
                                             symbol_id, "contains",
                                             Some(ctx.file_path), Some(n), Some(0)))]
                      ELSE pushed
             inside == [edged EXCEPT !.node_stack = Append(@, symbol_id)]
             called == find_calls(inside, t, n, symbol_id)
         IN traverse_each(called, t, children(t, n))
extract_symbol(ctx, t, n, kind) ==
    IF t[n].name = "" THEN traverse_each(ctx, t, children(t, n))
    ELSE LET symbol_id == ctx.next_id
             pushed == [ctx EXCEPT !.next_id = @ + 1,
                          !.result.nodes =
                              Append(@, Node(symbol_id, kind, t[n].name, ctx.file_path))]
             edged == IF ctx.node_stack # <<>>
                      THEN [pushed EXCEPT !.result.edges =
                              Append(@, Edge(0, ctx.node_stack[Len(ctx.node_stack)],
                                             symbol_id, "contains",
                                             Some(ctx.file_path), Some(n), Some(0)))]
                      ELSE pushed
             inside == [edged EXCEPT !.node_stack = Append(@, symbol_id)]
             called == find_calls(inside, t, n, symbol_id)
             walked == traverse_each(called, t, children(t, n))
         IN [walked EXCEPT !.node_stack = SubSeq(@, 1, Len(@) - 1)]

\* The context of extract_file when the traversal starts: the file node, on
\* the stack.
file_context(path) ==
    ExtractionContext(ExtractionResult(<<Node(1, "File", path, path)>>, <<>>, <<>>, 0),
                      path, <<1>>, 2)

\* extract_file on a file that parses to syntax tree t.
extract_tree(path, t) == traverse_each(file_context(path), t, children(t, 0)).result

InitExtract ==
    /\ db = SCHEMA
    /\ saved = SCHEMA
    /\ inTxn = FALSE
    /\ tree = Project
    /\ ix = IxIdle
    /\ \E t \in SyntaxTrees : last = Last("open", t, "ok", 0)
    /\ used = 0
    /\ impact = ImpactIdle
    /\ mcp = McpIdle

Call_extract_file ==
    /\ last.op = "open"
    /\ last' = Last("extract_file", last.arg, "ok", extract_tree("a.rs", last.arg))
    /\ UNCHANGED <<db, saved, inTxn, tree, ix, used, impact, mcp>>

NextExtract == Call_extract_file

SpecExtract == InitExtract /\ [][NextExtract]_vars

\* ------------------------------------------------------------------ claims
Tables(d) ==
    [files |-> d.files, nodes |-> d.nodes, edges |-> d.edges,
     unresolved_refs |-> d.unresolved_refs]

\* The step ends a pass that had begun its transaction, with an error.
PassFails == ix.pc # "idle" /\ ix'.pc = "idle" /\ last'.st = "err"
\* The step ends a pass with Ok(stats).
PassSucceeds == ix.pc = "commit" /\ ix'.pc = "idle" /\ last'.st = "ok"

\* C1: when a store operation fails in a pass that has already stored a file,
\* the handle afterwards shows the files, nodes, edges and unresolved
\* references of before the pass.
C1_FailedPassLeavesPriorIndex ==
    [][(PassFails /\ ix.stats.files > 0) => Tables(db') = Tables(saved)]_vars

\* C2: after index_codebase returns Ok, and after resolve_references returns
\* Ok, the unresolved_refs table is empty.
C2_NoUnresolvedRefsAfterResolve ==
    (last.op \in {"index_codebase", "resolve_references"} /\ last.st = "ok")
        => db.unresolved_refs = {}

\* A pass returned Ok in which one reference found its node and another did not.
C2_Witness ==
    /\ last = Last("index_codebase", "", "ok", 0)
    /\ ix.stats.files = 2
    /\ ix.stats.resolved_refs = 1
    /\ db.unresolved_refs = {}

\* C3: both ends of every edge row are ids of node rows.
C3_EdgeEndsExist ==
    \A e \in db.edges : e.source_id \in NodeIds(db) /\ e.target_id \in NodeIds(db)

\* A file that had a calls edge into it was deleted; the other file's edge stays.
C3_Witness ==
    /\ last.op \in {"delete_file", "index_codebase"}
    /\ last.st = "ok"
    /\ db.seq.edges > Cardinality(db.edges)
    /\ db.edges # {}
    /\ db.seq.nodes > Cardinality(db.nodes)

\* C4: every node row's file_path is the path of a file row, and while a pass
\* inserts a file's nodes, edges and references the file's record is stored.
C4_NodeFileExists ==
    /\ \A n \in db.nodes : get_file(db, n.file_path) # None
    /\ ix.pc \in {"nodes", "edges", "urefs", "file2"} => get_file(db, ix.path) # None

\* A pass is about to insert the first node of a file whose record is stored.
C4_Witness ==
    /\ ix.pc = "nodes"
    /\ ix.i = 1
    /\ NodesOfFile(db, ix.path) = {}
    /\ get_file(db, ix.path) # None

\* The step is a delete_file(path) that returns Ok, called directly or by a pass.
DeleteFileOk(path) ==
    \/ /\ ix.pc = "idle"
       /\ used' = used + 1
       /\ last' = Last("delete_file", path, "ok", 0)
    \/ ix.pc = "delete" /\ ix.path = path /\ ix'.pc = "file"

\* C5: after delete_file(p) returns Ok there is no file row, node or unresolved
\* reference of p and no edge from or to a node that was of p, and the rows of
\* the other files are as before.
C5_DeleteFileRemovesTheFileOnly ==
    [][\A p \in Paths : DeleteFileOk(p) =>
        LET ids == NodesOfFile(db, p)
        IN /\ get_file(db', p) = None
           /\ \A n \in db'.nodes : n.file_path # p
           /\ \A u \in db'.unresolved_refs : u.file_path # p
           /\ \A e \in db'.edges : e.source_id \notin ids /\ e.target_id \notin ids
           /\ {r \in db'.files : r.path # p} = {r \in db.files : r.path # p}
           /\ db'.nodes = {n \in db.nodes : n.file_path # p}
           /\ db'.edges = {e \in db.edges : e.source_id \notin ids /\ e.target_id \notin ids}
      ]_vars

\* A pass has deleted a file that had nodes; another file's nodes and edge stay.
C5_Witness ==
    /\ ix.pc = "file"
    /\ NodesOfFile(saved, ix.path) # {}
    /\ NodesOfFile(db, ix.path) = {}
    /\ get_file(db, ix.path) = None
    /\ db.nodes # {}
    /\ db.edges # {}
    /\ Cardinality(db.edges) < Cardinality(saved.edges)

\* C6: needs_reindex(p, h) is true exactly when the store has no file row of p
\* or the row's content_hash is not h.
C6_NeedsReindex ==
    \A p \in Paths, h \in Hashes :
        needs_reindex(db, p, h) <=>
            \/ ~ \E r \in db.files : r.path = p
            \/ \E r \in db.files : r.path = p /\ r.content_hash # h

\* One file is stored (its own hash needs no reindex, another does), one is not.
C6_Witness ==
    \E p, q \in Paths, h \in Hashes :
        /\ \E r \in db.files : r.path = p /\ r.content_hash = h
        /\ ~ needs_reindex(db, p, h)
        /\ needs_reindex(db, p, "h_old")
        /\ get_file(db, q) = None
        /\ needs_reindex(db, q, h)

\* C7: a pass that follows a successful pass over the same tree, with nothing
\* called in between, skips every file, resolves nothing and leaves the file,
\* node and edge counts as they were.
C7_SecondPassKeepsCounts ==
    [][(PassSucceeds /\ ix.rerun) =>
        /\ get_stats(db') = get_stats(saved)
        /\ ix'.stats.files = 0
        /\ ix'.stats.resolved_refs = 0
        /\ ix'.stats.skipped = Cardinality({p \in Paths : tree[p] \in Contents})
      ]_vars

\* Such a second pass returned Ok over a store with both files and a calls edge.
C7_Witness ==
    /\ last = Last("index_codebase", "", "ok", 0)
    /\ ix.rerun
    /\ ix.stats.skipped = 2
    /\ \E e \in db.edges : e.kind = "calls"

\* The step is a resolve_references() that returns Ok(ret).
ResolveOk(ret) ==
    \/ /\ ix.pc = "idle"
       /\ used' = used + 1
       /\ last' = Last("resolve_references", "", "ok", ret)
    \/ /\ ix.pc = "walk"
       /\ ix'.pc = "commit"
       /\ ix'.stats.resolved_refs = ret

\* The edge e is the resolution of the reference u in store d.
Resolves(d, e, u) ==
    /\ e.source_id = u.source_node_id
    /\ \E n \in d.nodes : n.id = e.target_id /\ n.name = u.reference_name
    /\ e.file_path = Some(u.file_path)
    /\ e.line = Some(u.line)
    /\ e.column = Some(u.column)

SameSite(u, v) ==
    /\ u.source_node_id = v.source_node_id
    /\ u.reference_name = v.reference_name
    /\ u.file_path = v.file_path
    /\ u.line = v.line
    /\ u.column = v.column

\* C8: resolve_references inserts one edge for every pending reference whose
\* name is a node's name, from the reference's source to a node of that name
\* with the reference's file_path, line and column, no edge for the other
\* references, and returns the number of edges inserted.
C8_ResolveInsertsOneEdgePerMatch ==
    [][\A ret \in 0..(Cardinality(db.unresolved_refs) + 1) : ResolveOk(ret) =>
        LET refs == db.unresolved_refs
            new == db'.edges \ db.edges
            matched == {u \in refs : \E n \in db.nodes : n.name = u.reference_name}
        IN /\ db.edges \subseteq db'.edges
           /\ \A u \in matched :
                Cardinality({e \in new : Resolves(db, e, u)})
                    = Cardinality({v \in matched : SameSite(u, v)})
           /\ \A e \in new : \E u \in matched : Resolves(db, e, u)
           /\ Cardinality(new) = Cardinality(matched)
           /\ ret = Cardinality(new)
      ]_vars

\* A pass has resolved the call of g in a.rs and found no node for the call of h.
C8_Witness ==
    /\ ix.pc = "commit"
    /\ ix.stats.resolved_refs = 1
    /\ ix.stats.files = 2
    /\ \E e \in db.edges :
          /\ e.kind = "calls"
          /\ e.file_path = Some("a.rs") /\ e.line = Some(1) /\ e.column = Some(9)
          /\ \E n \in db.nodes : n.id = e.target_id /\ n.name = "g"

Range(seq) == {seq[i] : i \in DOMAIN seq}
CallsInto(d, id) == {e \in d.edges : e.kind = "calls" /\ e.target_id = id}
CallsFrom(d, id) == {e \in d.edges : e.kind = "calls" /\ e.source_id = id}

\* C9: with a limit of at least the number of calls edges at the node,
\* get_callers(b) holds the source of every calls edge into b and get_callees(a)
\* the target of every calls edge from a, and neither holds a node for an edge
\* of another kind.
C9_CallersAndCalleesAreTheCallsEdges ==
    \A n \in db.nodes : \A limit \in 0..(Cardinality(db.edges) + 1) :
        /\ limit >= Cardinality(CallsInto(db, n.id)) =>
              {m.id : m \in Range(get_callers(db, n.id, limit))}
                  = {e.source_id : e \in CallsInto(db, n.id)}
        /\ limit >= Cardinality(CallsFrom(db, n.id)) =>
              {m.id : m \in Range(get_callees(db, n.id, limit))}
                  = {e.target_id : e \in CallsFrom(db, n.id)}

\* A node has a calls edge and a contains edge into it, from different nodes.
C9_Witness ==
    \E e, c \in db.edges :
        /\ e.kind = "calls" /\ c.kind = "contains"
        /\ e.target_id = c.target_id
        /\ e.source_id # c.source_id
        /\ \E m \in Range(get_callers(db, e.target_id, 1)) : m.id = e.source_id
        /\ \E m \in Range(get_callees(db, e.source_id, 1)) : m.id = e.target_id

\* C10: analyze_impact returns, on every call graph and for every depth, and
\* pushes no node on its queue twice.
C10_ImpactTerminates ==
    /\ [](\A i, j \in DOMAIN impact.pushed : i # j => impact.pushed[i] # impact.pushed[j])
    /\ <>(impact.pc = "done")

\* An analysis has returned callers on a graph where the root calls itself and
\* lies on a cycle of calls.
C10_Witness ==
    /\ impact.pc = "done"
    /\ impact.root # None
    /\ impact.indirect_callers # <<>>
    /\ LET r == impact.root[1].id
       IN /\ \E e \in CallsInto(db, r) : e.source_id = r
          /\ \E e \in CallsInto(db, r), c \in CallsFrom(db, r) :
                e.source_id # r /\ e.source_id = c.target_id

\* C11: the analysis analyze_impact returns holds the root in neither list,
\* holds no node twice across direct_callers and indirect_callers, and its
\* total_impact is the sum of their lengths.
C11_ImpactListsExcludeRootAndRepeats ==
    (impact.pc = "done" /\ impact.root # None) =>
        LET all == impact.direct_callers \o impact.indirect_callers
        IN /\ \A i \in DOMAIN all : all[i].id # impact.root[1].id
           /\ \A i, j \in DOMAIN all : i # j => all[i].id # all[j].id
           /\ impact.total_impact =
                  Len(impact.direct_callers) + Len(impact.indirect_callers)

\* An analysis has returned for a root that calls itself, that is called
\* twice by one caller, and whose caller it calls in turn.
C11_Witness ==
    /\ impact.pc = "done"
    /\ impact.root # None
    /\ impact.total_impact >= 1
    /\ LET r == impact.root[1].id
       IN /\ \E e \in CallsInto(db, r) : e.source_id = r
          /\ \E e, f \in CallsInto(db, r) :
                e.id # f.id /\ e.source_id = f.source_id /\ e.source_id # r
                /\ \E c \in CallsFrom(db, r) : c.target_id = e.source_id

StartsWith(str, prefix) ==
    Len(prefix) <= Len(str) /\ SubSeq(str, 1, Len(prefix)) = prefix

\* The nodes a prefix search for the query is to return when not limited.
Matching(d, query, kind) ==
    {n \in {row_to_node(row) : row \in d.nodes} :
        /\ StartsWith(to_lowercase(n.name), to_lowercase(query))
        /\ kind # None => n.kind = kind[1]}

\* C12: every node search_nodes returns has a lower-cased name that starts
\* with the lower-cased query and, when a kind is given, that kind.
C12_SearchReturnsPrefixMatchesOnly ==
    last.op = "search_nodes" =>
        \A n \in Range(last.ret) : n \in Matching(db, last.arg.query, last.arg.kind)

\* C13: search_nodes returns min(limit, number of matching nodes) nodes, the
\* first of the matching nodes by (length(name), name); every node matches
\* the empty query and a node matches the query that is its name.
C13_SearchReturnsFirstMatches ==
    last.op = "search_nodes" =>
        LET M == Matching(db, last.arg.query, last.arg.kind)
            ret == last.ret
            before(m, n) == \/ Len(m.name) < Len(n.name)
                            \/ Len(m.name) = Len(n.name) /\ name_less(m.name, n.name)
        IN /\ Len(ret) = IF last.arg.limit < Cardinality(M) THEN last.arg.limit
                         ELSE Cardinality(M)
           /\ Range(ret) \subseteq M
           /\ \A i, j \in DOMAIN ret : i < j => ret[i] # ret[j] /\ ~before(ret[j], ret[i])
           /\ \A m \in M \ Range(ret), n \in Range(ret) : ~before(m, n)

\* C14: after insert_or_update_file(rec) the store holds one file row for
\* rec.path and get_file(rec.path) returns a record equal to rec in every
\* field, whether or not there was a row for the path before.
C14_GetFileReturnsTheRecordWritten ==
    last.op = "get_file" =>
        /\ Cardinality({r \in db.files : r.path = last.arg.path}) = 1
        /\ last.ret = Some(last.arg)

\* C15: extract_subgraph(seed_ids, options) returns at most options.limit
\* nodes.
C15_SubgraphHoldsAtMostLimitNodes ==
    last.op = "extract_subgraph" =>
        Cardinality(last.ret.nodes) <= last.arg.options.limit

\* The file cannot be read, or its extraction returns an error.
FailedFile(p) ==
    \/ tree[p] = "unreadable"
    \/ tree[p] \in Contents /\ extract_file(p, tree[p]).errors > 0
\* The file is read and extracted without an error.
IndexableFile(p) == tree[p] \in Contents /\ extract_file(p, tree[p]).errors = 0
\* The change gate let the file through, in the pass that is about to commit.
Gated(p) == tree[p] \in Contents /\ needs_reindex(saved, p, content_hash_of(tree[p]))

\* C16: a pass over a tree with files that cannot be read or extracted
\* commits; it counts each failure in stats.errors, counts no failed file in
\* stats.files, stores no node of a failed file, and indexes every other file.
C16_FailedFilesAreCountedAndSkipped ==
    [][PassSucceeds =>
        /\ ix'.stats.errors =
              Cardinality({p \in DOMAIN tree : FailedFile(p) /\ (Gated(p) \/ tree[p] = "unreadable")})
        /\ ix'.stats.files = Cardinality({p \in DOMAIN tree : IndexableFile(p) /\ Gated(p)})
        /\ \A p \in DOMAIN tree : FailedFile(p) => NodesOfFile(db', p) \subseteq NodeIds(saved)
        /\ \A p \in DOMAIN tree : IndexableFile(p) =>
              /\ \E r \in db'.files : r.path = p /\ r.content_hash = content_hash_of(tree[p])
              /\ NodesOfFile(db', p) # {}]_vars

\* The step ends a pass, with Ok or with an error.
PassEnds == ix.pc # "idle" /\ ix'.pc = "idle"
\* The store at the start of the pass holds the hash of the file's contents.
Unchanged(p) ==
    /\ tree[p] \in Contents
    /\ \E r \in saved.files : r.path = p /\ r.content_hash = content_hash_of(tree[p])

\* C17: a pass leaves the node rows and the file record of every file whose
\* stored hash is the hash of its contents as they were; the nodes of a file
\* that is new or changed are deleted and the nodes stored for it have new ids.
C17_PassKeepsRowsOfUnchangedFiles ==
    [][/\ PassEnds =>
            \A p \in DOMAIN tree : Unchanged(p) =>
                /\ {n \in db'.nodes : n.file_path = p} = {n \in saved.nodes : n.file_path = p}
                /\ {r \in db'.files : r.path = p} = {r \in saved.files : r.path = p}
       /\ PassSucceeds =>
            \A p \in DOMAIN tree : (tree[p] \in Contents /\ ~Unchanged(p)) =>
                /\ NodesOfFile(db', p) \cap NodeIds(saved) = {}
                /\ NodesOfFile(db', p) # {}]_vars

\* A pass has committed that skipped a file with nodes in the store and
\* indexed another.
C17_Witness ==
    /\ last.op = "index_codebase" /\ last.st = "ok"
    /\ ix.stats.skipped >= 1
    /\ ix.stats.files >= 1
    /\ \E p, q \in Paths : p # q /\ NodesOfFile(db, p) # {} /\ NodesOfFile(db, q) # {}

C19_DeleteFileSucceeds ==
    /\ ix.pc = "idle" => \A p \in Paths : delete_file(db, p).ok
    /\ ix.pc = "delete" => delete_file(db, ix.path).ok

\* ---- C20
RECURSIVE insert_unresolved_refs(_, _)
insert_unresolved_refs(d, refs) ==
    IF refs = <<>> THEN d
    ELSE insert_unresolved_refs(insert_unresolved_ref(d, Head(refs)).db, Tail(refs))

\* The loop body of index_codebase for one file the gate lets through, no
\* operation failing: the n-th extracted node is stored as the n-th new id.
index_file(d, path, content) ==
    LET result == extract_file(path, content)
        base == d.seq.nodes
        rec(n) == FileRecord(path, content_hash_of(content), n)
        d0 == delete_file(d, path).db
        d1 == insert_or_update_file(d0, rec(Len(result.nodes))).db
        d2 == insert_nodes(d1, [i \in DOMAIN result.nodes |->
                                  [result.nodes[i] EXCEPT !.id = 0]])
        d3 == insert_edges(d2, [i \in DOMAIN result.edges |->
                                  [result.edges[i] EXCEPT !.source_id = base + @,
                                                          !.target_id = base + @]])
        d4 == insert_unresolved_refs(d3, [i \in DOMAIN result.unresolved_refs |->
                                  [result.unresolved_refs[i] EXCEPT
                                      !.source_node_id = base + @]])
    IN insert_or_update_file(d4, rec(Len(result.nodes))).db

RECURSIVE index_files(_, _, _)
index_files(d, t, todo) ==
    IF todo = {} THEN d
    ELSE LET path == CHOOSE p \in todo : TRUE
         IN index_files(index_file(d, path, t[path]), t, todo \ {path})

\* index_codebase on tree t with an empty store, no operation failing.
index_into_empty(t) ==
    LET d == index_files(SCHEMA, t, {p \in WalkEntries(t) : t[p] # "unreadable"})
    IN resolve_references(d, "lo").db

\* The calls relations of a store: caller symbol, callee symbol, call site.
CallsRelations(d) ==
    {<<j[2].file_path, j[2].name, j[3].file_path, j[3].name,
       j[1].file_path, j[1].line, j[1].column>> :
        j \in {x \in d.edges \X d.nodes \X d.nodes :
                 /\ x[1].kind = "calls"
                 /\ x[2].id = x[1].source_id
                 /\ x[3].id = x[1].target_id}}

\* A pass has just returned Ok, over a tree of readable files that still holds
\* every file the store has a record of.
PassOverWholeTree ==
    /\ ix.pc = "idle"
    /\ last.op = "index_codebase" /\ last.st = "ok"
    /\ \A p \in DOMAIN tree : tree[p] # "unreadable"
    /\ \A r \in db.files : tree[r.path] # "absent"

\* C20: after an index pass over a tree from which no file was removed, the
\* calls relations in the store (caller symbol, callee symbol, call site) are
\* those of indexing the same tree into an empty store: the calls edge of an
\* unchanged, skipped file into a re-indexed file is still there, and a call
\* in an unchanged file to a symbol first defined in a later pass is resolved.
C20_PassEqualsFreshIndex ==
    PassOverWholeTree => CallsRelations(db) = CallsRelations(index_into_empty(tree))

\* A calls edge from function f of file a to function g of file b.
CallsEdge(d, a, f, b, g) ==
    \E e \in d.edges, m, n \in d.nodes :
        /\ e.kind = "calls" /\ e.source_id = m.id /\ e.target_id = n.id
        /\ m.name = f /\ m.file_path = a /\ n.name = g /\ n.file_path = b

\* C21: within one pass, a call in file A to a name defined only in file B is
\* resolved to a calls edge, whichever of A and B the walk visits first.
C21_CallResolvedInEitherWalkOrder ==
    [][PassSucceeds =>
        \A a, b \in Paths :
            (/\ tree[a] = "c_f" /\ tree[b] = "c_g"
             /\ Gated(a) /\ Gated(b)) => CallsEdge(db', a, "f", b, "g")]_vars

\* A pass has committed that indexed the calling file before the file that
\* defines g, and the call is an edge.
C21_Witness ==
    /\ last.op = "index_codebase" /\ last.st = "ok"
    /\ ix.stats.files = 2
    /\ CallsEdge(db, "a.rs", "f", "b.rs", "g")
    /\ \A m, n \in db.nodes : (m.name = "f" /\ n.name = "g") => m.id < n.id

\* The nodes with a chain of at most k calls edges to node r.
RECURSIVE Within(_, _, _)
Within(d, r, k) ==
    IF k = 0 THEN {r}
    ELSE LET W == Within(d, r, k - 1)
         IN W \cup {e.source_id : e \in {x \in d.edges : x.kind = "calls" /\ x.target_id \in W}}

\* C22: on a graph whose nodes have fewer than 100 incoming calls edges,
\* analyze_impact(name, depth) reports as direct_callers exactly the nodes
\* other than the root with a calls edge into the root (depth >= 1), as
\* indirect_callers exactly the other nodes whose shortest chain of calls
\* edges to the root has a length from 2 to depth, and with depth 0 neither.
C22_ImpactListsAreTheCallersByDistance ==
    (/\ impact.pc = "done" /\ impact.root # None
     /\ \A n \in db.nodes : Cardinality(CallsInto(db, n.id)) < ImpactFanout) =>
        LET r == impact.root[1].id
            direct == {impact.direct_callers[i].id : i \in DOMAIN impact.direct_callers}
            indirect == {impact.indirect_callers[i].id : i \in DOMAIN impact.indirect_callers}
        IN /\ Len(impact.direct_callers) = Cardinality(direct)
           /\ Len(impact.indirect_callers) = Cardinality(indirect)
           /\ direct = IF impact.depth >= 1 THEN Within(db, r, 1) \ {r} ELSE {}
           /\ indirect = IF impact.depth >= 1
                         THEN Within(db, r, impact.depth) \ Within(db, r, 1) ELSE {}

\* An analysis to depth 2 has returned a direct and an indirect caller.
C22_Witness ==
    /\ impact.pc = "done"
    /\ impact.root # None
    /\ impact.depth = 2
    /\ impact.direct_callers # <<>>
    /\ impact.indirect_callers # <<>>

\* Node n of syntax tree t is emitted as a symbol.
Emitted(t, n) == node_type_to_kind(t[n].kind) # None /\ t[n].name # ""
\* The nearest emitted symbol that encloses node n, 0 when there is none.
RECURSIVE EnclosingSymbol(_, _)
EnclosingSymbol(t, n) ==
    LET p == t[n].parent
    IN IF p = 0 THEN 0 ELSE IF Emitted(t, p) THEN p ELSE EnclosingSymbol(t, p)
\* The local id of the symbol emitted for node n (the file node for 0): the
\* target of the contains edge at the node's position.
SymbolId(res, n) ==
    IF n = 0 THEN 1
    ELSE (CHOOSE e \in Range(res.edges) : e.line = Some(n)).target_id

\* C23: extraction emits exactly one unresolved reference per call site that
\* lies inside an emitted symbol, credited to the nearest symbol around it: a
\* call site inside a nested symbol is credited to the nested symbol and is
\* not emitted again for the symbols that enclose it.
C23_OneReferencePerCallSite ==
    last.op = "extract_file" =>
        LET t == last.arg
            res == last.ret
        IN \A c \in DOMAIN t :
              (is_call_node(t[c].kind) /\ t[c].name # "" /\ EnclosingSymbol(t, c) # 0) =>
                  LET refs == {i \in DOMAIN res.unresolved_refs :
                                  res.unresolved_refs[i].line = c}
                  IN /\ Cardinality(refs) = 1
                     /\ \A i \in refs : res.unresolved_refs[i].source_node_id =
                                             SymbolId(res, EnclosingSymbol(t, c))

\* C24: in an extraction result the file node is first, with local id 1;
\* every other node is an emitted symbol with one incoming contains edge, from
\* its nearest enclosing emitted symbol or else the file node; the contains
\* edges form a tree rooted at the file node; walking a subtree leaves the
\* parent stack as it was; a declaration with an empty name emits no node and
\* its nested named symbols are attached to the next enclosing parent.
C24_ContainsEdgesFormTheSymbolTree ==
    last.op = "extract_file" =>
        LET t == last.arg
            res == last.ret
            E == {n \in DOMAIN t : Emitted(t, n)}
        IN /\ res.nodes[1].id = 1 /\ res.nodes[1].kind = "File"
           /\ Len(res.nodes) = 1 + Cardinality(E)
           /\ \A i, j \in DOMAIN res.nodes : i # j => res.nodes[i].id # res.nodes[j].id
           /\ \A i \in 2..Len(res.nodes) :
                 Cardinality({k \in DOMAIN res.edges :
                                 res.edges[k].target_id = res.nodes[i].id}) = 1
           /\ \A k \in DOMAIN res.edges :
                 /\ res.edges[k].kind = "contains"
                 /\ res.edges[k].source_id < res.edges[k].target_id
                 /\ \E i \in DOMAIN res.nodes : res.nodes[i].id = res.edges[k].source_id
                 /\ \E i \in 2..Len(res.nodes) : res.nodes[i].id = res.edges[k].target_id
           /\ \A n \in E :
                 \E k \in DOMAIN res.edges :
                    /\ res.edges[k].line = Some(n)
                    /\ res.edges[k].source_id = SymbolId(res, EnclosingSymbol(t, n))
           /\ \A n \in DOMAIN t :
                 traverse_node(file_context("a.rs"), t, n).node_stack = <<1>>

\* A file was extracted in which a named function lies in an unnamed
\* declaration inside a named function, and a named function at the top
\* level follows another.
C24_Witness ==
    /\ last.op = "extract_file"
    /\ LET t == last.arg
       IN /\ \E n \in DOMAIN t :
                /\ Emitted(t, n)
                /\ t[n].parent # 0
                /\ t[t[n].parent].kind = "function_item" /\ t[t[n].parent].name = ""
                /\ EnclosingSymbol(t, n) # 0
          /\ \E m, n \in DOMAIN t :
                m < n /\ Emitted(t, m) /\ Emitted(t, n) /\ t[m].parent = 0 /\ t[n].parent = 0
          /\ Len(last.ret.nodes) = 4

\* The sum of a sequence of numbers.
RECURSIVE SumOf(_)
SumOf(s) == IF s = <<>> THEN 0 ELSE Head(s) + SumOf(Tail(s))
\* What the rows of one list of callees or callers add to the score of node
\* id: weight / (rank + 1) for every row of the node, the row at rank 0 first.
RowsScore(rows, id, weight) ==
    SumOf([i \in DOMAIN rows |-> IF rows[i].id = id THEN weight \div i ELSE 0])
\* The same when a node has one rank in a list, that of its first row.
RankScore(rows, id, weight) ==
    LET at == {i \in DOMAIN rows : rows[i].id = id}
    IN IF at = {} THEN 0 ELSE weight \div (CHOOSE i \in at : \A j \in at : i <= j)
\* The total score of node id for the entry points, by rows and by ranks, in
\* units of 1/12600.
TotalScore(d, ids, id) ==
    SumOf([i \in DOMAIN ids |->
              RowsScore(get_callees(d, ids[i], RelatedFanout), id, 12600)
              + RowsScore(get_callers(d, ids[i], RelatedFanout), id, 10080)])
TotalRankScore(d, ids, id) ==
    SumOf([i \in DOMAIN ids |->
              RankScore(get_callees(d, ids[i], RelatedFanout), id, 12600)
              + RankScore(get_callers(d, ids[i], RelatedFanout), id, 10080)])
\* What find_related returns apart from the order: at most max_nodes nodes
\* of the store, no entry point among them and none twice.
RelatedNodesOk ==
    LET ret == last.ret
        ids == last.arg.node_ids
    IN /\ Len(ret) <= last.arg.max_nodes
       /\ \A i \in DOMAIN ret :
             /\ get_node(db, ret[i].id) = Some(ret[i])
             /\ \A k \in DOMAIN ids : ids[k] # ret[i].id
       /\ \A i, j \in DOMAIN ret : i # j => ret[i].id # ret[j].id

\* C25 as stated: find_related(entry_points, max_nodes) returns at most
\* max_nodes nodes, none an entry point and none twice, in non-increasing
\* order of total score, the score of a node being the sum over the entry
\* points of 1/(rank+1) for its rank among the entry point's first 10 callees
\* plus 0.8/(rank+1) for its rank among its first 10 callers.
C25_RelatedInOrderOfRankScore ==
    last.op = "find_related" =>
        /\ RelatedNodesOk
        /\ \A i, j \in DOMAIN last.ret :
              i < j => TotalRankScore(db, last.arg.node_ids, last.ret[i].id)
                          >= TotalRankScore(db, last.arg.node_ids, last.ret[j].id)

\* C25, amended: the same, the score of a node being the sum of 1/(rank+1)
\* over every row that the node has among the entry point's first 10 rows of
\* callees, one row per calls edge, plus 0.8/(rank+1) over every row it has
\* among the first 10 rows of callers; a returned node has a positive score.
C25_RelatedInOrderOfRowScore ==
    last.op = "find_related" =>
        /\ RelatedNodesOk
        /\ \A i \in DOMAIN last.ret : TotalScore(db, last.arg.node_ids, last.ret[i].id) > 0
        /\ \A i, j \in DOMAIN last.ret :
              i < j => TotalScore(db, last.arg.node_ids, last.ret[i].id)
                          >= TotalScore(db, last.arg.node_ids, last.ret[j].id)

\* find_related has returned two nodes of different scores for two entry
\* points, one of which calls a returned node twice.
C25_Witness ==
    /\ last.op = "find_related"
    /\ Len(last.arg.node_ids) = 2
    /\ last.arg.node_ids[1] # last.arg.node_ids[2]
    /\ Len(last.ret) = 2
    /\ TotalScore(db, last.arg.node_ids, last.ret[1].id)
          > TotalScore(db, last.arg.node_ids, last.ret[2].id)
    /\ \E e1, e2 \in db.edges :
          /\ e1.id # e2.id /\ e1.kind = "calls" /\ e2.kind = "calls"
          /\ e1.source_id = last.arg.node_ids[1] /\ e2.source_id = e1.source_id
          /\ e1.target_id = last.ret[1].id /\ e2.target_id = e1.target_id

\* C26: build_context returns entry points that hold no node id twice and
\* number at most max_nodes / 2, related nodes that are no entry points, and
\* as edges exactly the stored edges whose source and target both belong to
\* the union of the entry points and the related nodes, each stored edge once.
C26_ContextEdgesLieWithinItsNodes ==
    last.op = "build_context" =>
        LET c == last.ret
            ids == {c.entry_points[i].id : i \in DOMAIN c.entry_points}
                      \cup {c.related_nodes[i].id : i \in DOMAIN c.related_nodes}
        IN /\ \A i, j \in DOMAIN c.entry_points :
                 i # j => c.entry_points[i].id # c.entry_points[j].id
           /\ Len(c.entry_points) <= last.arg.max_nodes \div 2
           /\ \A i \in DOMAIN c.entry_points, j \in DOMAIN c.related_nodes :
                 c.entry_points[i].id # c.related_nodes[j].id
           /\ Range(c.edges) =
                 {e \in db.edges : e.source_id \in ids /\ e.target_id \in ids}
           /\ \A i, j \in DOMAIN c.edges : i # j => c.edges[i] # c.edges[j]

\* A context was built from a task of two keywords that both match its
\* first entry point: it holds two entry points, a related node and two
\* edges, one of them from an entry point to the related node.
C26_Witness ==
    /\ last.op = "build_context"
    /\ Len(extract_keywords(last.arg.task)) = 2
    /\ Len(last.ret.entry_points) = 2
    /\ \A k \in 1..2 :
          sqlite_like(pattern_of(extract_keywords(last.arg.task)[k]),
                      sqlite_lower(last.ret.entry_points[1].name))
    /\ LET c == last.ret
           entries == {c.entry_points[i].id : i \in DOMAIN c.entry_points}
           related == {c.related_nodes[i].id : i \in DOMAIN c.related_nodes}
       IN /\ Len(c.entry_points) = 2
          /\ Len(c.related_nodes) = 1
          /\ Len(c.edges) = 2
          /\ \E i \in DOMAIN c.edges :
                c.edges[i].source_id \in entries /\ c.edges[i].target_id \in related

\* C27: on every exit of index_codebase, with Ok or with an error, no
\* transaction is left open on the store handle, so that a later
\* index_codebase on the handle can begin its own transaction and later
\* writes outside a pass are committed on their own.
C27_NoTransactionOpenBetweenPasses ==
    ix.pc = "idle" => ~ inTxn

\* C28: after a successful index pass every file row of the store belongs to
\* a file that the walk of the pass visited: the rows, nodes and edges of a
\* file indexed before and since removed from the tree are removed.
C28_PassDropsRowsOfRemovedFiles ==
    (last.op = "index_codebase" /\ last.st = "ok") =>
        /\ \A f \in db.files : f.path \in WalkEntries(tree)
        /\ \A n \in db.nodes : n.file_path \in WalkEntries(tree)

\* ---- the tool server's reindex of named files
\* The paths a request names.
RequestPaths == {"a.rs", "./a.rs", "b.rs"}
\* path.trim_start_matches("./"), on these paths.
normalize_path(path) == IF path = "./a.rs" THEN "a.rs" ELSE path

get_nodes_by_file(d, path) ==
    LET rows == ById({n \in d.nodes : n.file_path = path})
    IN [i \in DOMAIN rows |-> row_to_node(rows[i])]

\* for file_path in &files { db.delete_file(path) }: an error is noted and the
\* loop goes on.
RECURSIVE delete_files(_, _)
delete_files(d, files) ==
    IF files = <<>> THEN d
    ELSE delete_files(delete_file(d, normalize_path(Head(files))).db, Tail(files))

\* codemap_reindex with files named, up to drop(db): the handler takes the
\* lock, deletes the rows of the files and releases the lock.  mcp.before
\* keeps the store as the request found it.
ReindexDelete(files) ==
    /\ mcp.pc = "idle"
    /\ ix.pc = "idle"
    /\ files # <<>>
    /\ db' = delete_files(db, files)
    /\ mcp' = [mcp EXCEPT !.pc = "relock", !.files = files, !.before = db]
    /\ UNCHANGED <<saved, inTxn, tree, ix, last, used, impact>>

\* The handler has taken the lock again and called index_codebase.
ReindexLocked == mcp.pc = "relock" /\ last.op = "index_codebase"

\* index_codebase has returned: the handler formats its answer and
\* returns, which releases the lock.
ReindexReturn ==
    /\ ReindexLocked
    /\ ix.pc = "idle"
    /\ mcp' = [mcp EXCEPT !.pc = "done"]
    /\ UNCHANGED <<db, saved, inTxn, tree, ix, last, used, impact>>

\* codemap_file for another request, served when the lock is free; one
\* query is followed.
Call_codemap_file(path) ==
    /\ ix.pc = "idle"
    /\ ~ ReindexLocked
    /\ mcp.seen = None
    /\ mcp' = [mcp EXCEPT !.seen =
                  Some([path |-> normalize_path(path),
                        nodes |-> get_nodes_by_file(db, normalize_path(path)),
                        during |-> mcp.pc = "relock"])]
    /\ UNCHANGED <<db, saved, inTxn, tree, ix, last, used, impact>>

\* The project, indexed.
InitReindex ==
    /\ db = index_into_empty(Project)
    /\ saved = SCHEMA
    /\ inTxn = FALSE
    /\ tree = Project
    /\ ix = IxIdle
    /\ last = Last("open", "", "ok", 0)
    /\ used = 0
    /\ impact = ImpactIdle
    /\ mcp = McpIdle

NextReindex ==
    \/ \E files \in SeedsUpTo(MaxSeeds, RequestPaths) : ReindexDelete(files)
    \/ \E path \in RequestPaths : Call_codemap_file(path)
    \/ mcp.pc = "relock" /\ ~ ReindexLocked /\ IndexBegin(tree)
    \/ \E path \in Paths, fault \in Faults : IndexWalk(path, fault)
    \/ \E fault \in Faults : IndexDelete(fault)
    \/ \E fault \in Faults : IndexFile(fault)
    \/ \E fault \in Faults : IndexNode(fault)
    \/ \E fault \in Faults : IndexEdge(fault)
    \/ \E fault \in Faults : IndexUref(fault)
    \/ \E fault \in Faults : IndexFileCount(fault)
    \/ \E pick \in Picks, fault \in Faults : IndexResolve(pick, fault)
    \/ \E fault \in Faults : IndexCommit(fault)
    \/ ReindexReturn

SpecReindex == InitReindex /\ [][NextReindex]_vars

\* C29: a reindex request of the tool server that names files is atomic
\* for the other requests on the same store handle: no query served between
\* the start and the end of the request sees the store with a named file
\* deleted and not yet indexed again, and when the index pass fails the
\* rows that the named files had before are not lost.
C29_ReindexOfNamedFilesIsAtomic ==
    LET named == {normalize_path(mcp.files[i]) : i \in DOMAIN mcp.files}
    IN /\ (mcp.seen # None /\ mcp.seen[1].during /\ mcp.seen[1].path \in named) =>
             mcp.seen[1].nodes = get_nodes_by_file(mcp.before, mcp.seen[1].path)
       /\ (mcp.pc = "done" /\ last.st = "err") =>
             \A path \in named :
                 /\ get_file(db, path) = get_file(mcp.before, path)
                 /\ get_nodes_by_file(db, path) = get_nodes_by_file(mcp.before, path)

\* C30: every edge that extract_subgraph returns has its source and its
\* target among the nodes returned, whatever the options: also when the
\* node_kinds filter leaves out the node at the other end of an edge, and
\* when the limit is reached while a node is expanded.
C30_SubgraphEdgesLieWithinItsNodes ==
    last.op = "extract_subgraph" =>
        \A i \in DOMAIN last.ret.edges :
            /\ \E n \in last.ret.nodes : n.id = last.ret.edges[i].source_id
            /\ \E n \in last.ret.nodes : n.id = last.ret.edges[i].target_id

====
